---- MODULE Spec2Model ----
(***************************************************************************)
(* Card-mixing subsystem of the flashcard application:                     *)
(*   src/src/lib/cardMixingUtils.ts   shuffle, sampling, validation, mix,  *)
(*                                    grid layout                          *)
(*   src/src/lib/flashcardStorage.ts  the persisted document: decks, cards *)
(*                                    and the mixing-session history       *)
(*   src/unnamed/part_002             FlashcardAppContent's mix handlers   *)
(*   src/src/components/flashcard/CardMixer.tsx, DeckManager.tsx           *)
(*                                                                         *)
(* Arrays are TLA+ sequences (index k of the source is element k+1 here);  *)
(* every index that the program exposes (the loop index i, the draw j,     *)
(* MixedCard.position, slice bounds) keeps its 0-based source value.       *)
(***************************************************************************)
EXTENDS Integers, Sequences, FiniteSets, TLC

VARIABLES
    selectedDeckIds,   \* argument of validateCardMixingParams / mixCards
    requestedCount,    \* argument of validateCardMixingParams / mixCards
    allCards,          \* Record<string, Card[]>: deck id -> card list
    allDecks,          \* Record<string, Deck>: deck id -> deck
    cards,             \* argument of shuffleCards / selectRandomCards
    count,             \* argument of selectRandomCards
    op,                \* the exported function that ran last ("none" before)
    result,            \* what that function returned
    calls,             \* the functions of cardMixingUtils.ts entered, in order
    storage,           \* the localStorage item under STORAGE_KEY
    now,               \* the system clock (Date.now(), new Date()), in days
    clockMonotone,     \* history: the clock has never been set back
    before,            \* history: the persisted session list before the last call
    recordedInRow,     \* history: sessions saved since the last delete or cleanup
    recordsDone,       \* history: number of sessions saved so far
    deletesDone,       \* history: number of sessions lists rewritten by a delete so far
    clockMoves,        \* history: number of clock changes so far
    called,            \* history: argument and storage fault of the last store call
    currentView,       \* FlashcardAppContent: the view shown
    mixingSession,     \* FlashcardAppContent: the mixing session on display, or null
    currentSession,    \* FlashcardAppContent: the study session, or null
    errors,            \* ErrorContext: what addError was given, in order
    requestedCardCount,\* CardMixer: number of cards asked for
    maxAvailable,      \* CardMixer: total of the selected decks, set by the effect
    validationError,   \* CardMixer: message under the form ('' for none)
    recentSessions,    \* CardMixer: the sessions loaded when it mounted
    cardCount,         \* argument of calculateGridLayout
    tabs,              \* browser tabs: each one idle or between the read and the write of a store call
    completed,         \* history: the store calls of the tabs that have returned
    overlapped,        \* history: a tab has started a store call while another was inside one
    reshuffles         \* history: the reshuffles made in a row, and how many were recorded

inputVars == <<selectedDeckIds, requestedCount, allCards, allDecks, cards, count>>

historyVars == <<storage, now, clockMonotone, before, recordedInRow,
                 recordsDone, deletesDone, clockMoves, called>>

appVars == <<currentView, mixingSession, currentSession, errors>>

mixerVars == <<requestedCardCount, maxAvailable, validationError, recentSessions>>

uiVars == <<currentView, mixingSession, currentSession, errors, requestedCardCount,
            maxAvailable, validationError, recentSessions, cardCount, reshuffles>>

tabVars == <<tabs, completed, overlapped>>

vars == <<selectedDeckIds, requestedCount, allCards, allDecks, cards, count,
          op, result, calls, storage, now, clockMonotone, before,
          recordedInRow, recordsDone, deletesDone, clockMoves, called,
          currentView, mixingSession, currentSession, errors, requestedCardCount,
          maxAvailable, validationError, recentSessions, cardCount,
          tabs, completed, overlapped, reshuffles>>

----------------------------------------------------------------------------
(* Bounds of the model *)

DeckIds == {"A", "B"}
MaxDeckCards == 3
MaxSelected == 2
MaxPool == 5
MaxCount == 6
MaxLen == 3
MaxRecords == 11
MaxDeletes == 1
MaxClockMoves == 2
ClockSteps == {-1, 31}
MaxAgingRecords == 3
MaxAgingClockMoves == 3
AgingClockSteps == {1, 29}
Items == {"w", "x", "y", "z"}

----------------------------------------------------------------------------
(* Values *)

Undefined == "<undefined>"
Null == [null |-> TRUE]
NoResult == [none |-> TRUE]
NoCall == [none |-> TRUE]
NoReshuffles == [inRow |-> 0, recorded |-> 0]

Min(a, b) == IF a < b THEN a ELSE b
Max(a, b) == IF a > b THEN a ELSE b

\* Card of deck d at stored index k (front, back and createdAt play no part).
CardOf(d, k) == [id |-> <<d, k>>, deckId |-> d]

CardList(d, n) == [k \in 1..n |-> CardOf(d, k - 1)]

\* JavaScript `a || b` on string-or-undefined operands.
OrElse(a, b) == IF a = Undefined \/ a = "" THEN b ELSE a

\* allCards[deckId] || []
CardsOfDeck(all, deckId) == IF deckId \in DOMAIN all THEN all[deckId] ELSE <<>>

\* Array.prototype.slice(start, end) with its relative-index rules.
Slice(arr, start, end) ==
    LET len == Len(arr)
        k == IF start < 0 THEN Max(len + start, 0) ELSE Min(start, len)
        final == IF end < 0 THEN Max(len + end, 0) ELSE Min(end, len)
    IN  SubSeq(arr, k + 1, final)

----------------------------------------------------------------------------
(* shuffleCards: Fisher-Yates over a copy.  draws[i] is the value of       *)
(* Math.floor(Math.random() * (i + 1)) at loop index i, i.e. 0 <= j <= i.  *)

RECURSIVE DrawsUpTo(_)
DrawsUpTo(k) ==
    IF k <= 0 THEN {<<>>}
    ELSE {Append(d, j) : d \in DrawsUpTo(k - 1), j \in 0..k}

\* every outcome of the random draws of one shuffle of an n-element array
Draws(n) == DrawsUpTo(n - 1)

\* Swap with the second assignment lost: position j keeps its element
Swap_Overwrite(shuffled, i, j) ==
    [shuffled EXCEPT ![i + 1] = shuffled[j + 1]]

Swap(shuffled, i, j) ==
    [shuffled EXCEPT ![i + 1] = shuffled[j + 1], ![j + 1] = shuffled[i + 1]]

RECURSIVE ShuffleLoop(_, _, _)
ShuffleLoop(shuffled, i, draws) ==
    IF i > 0 THEN ShuffleLoop(Swap(shuffled, i, draws[i]), i - 1, draws)
    ELSE shuffled

shuffleCards(array, draws) == ShuffleLoop(array, Len(array) - 1, draws)

----------------------------------------------------------------------------
(* combineCardsFromDecks, selectRandomCards, createMixedCards *)

RECURSIVE combineCardsFromDecks(_, _)

\* combineCardsFromDecks putting the decks in the opposite order
combineCardsFromDecks_Reversed(ids, all) ==
    IF ids = <<>> THEN <<>>
    ELSE combineCardsFromDecks(Tail(ids), all) \o CardsOfDeck(all, Head(ids))

combineCardsFromDecks(ids, all) ==
    IF ids = <<>> THEN <<>>
    ELSE CardsOfDeck(all, Head(ids)) \o combineCardsFromDecks(Tail(ids), all)

\* selectRandomCards without the slice
selectRandomCards_NoSlice(cs, n, draws) == shuffleCards(cs, draws)

selectRandomCards(cs, n, draws) ==
    IF n >= Len(cs) THEN shuffleCards(cs, draws)
    ELSE Slice(shuffleCards(cs, draws), 0, n)

DeckField(decks, deckId, field) ==
    IF deckId \in DOMAIN decks THEN decks[deckId][field] ELSE Undefined

\* createMixedCards numbering positions from 1
createMixedCards_OneBased(cs, decks) ==
    [k \in 1..Len(cs) |->
        [id |-> cs[k].id,
         deckId |-> cs[k].deckId,
         deckName |-> OrElse(DeckField(decks, cs[k].deckId, "name"), "Unknown Deck"),
         deckColor |-> OrElse(DeckField(decks, cs[k].deckId, "color"), "#6B7280"),
         position |-> k]]

createMixedCards(cs, decks) ==
    [k \in 1..Len(cs) |->
        [id |-> cs[k].id,
         deckId |-> cs[k].deckId,
         deckName |-> OrElse(DeckField(decks, cs[k].deckId, "name"), "Unknown Deck"),
         deckColor |-> OrElse(DeckField(decks, cs[k].deckId, "color"), "#6B7280"),
         position |-> k - 1]]

----------------------------------------------------------------------------
(* getTotalAvailableCards, validateCardMixingParams *)

RECURSIVE getTotalAvailableCards(_, _)

\* getTotalAvailableCards counting one card for a deck that has no card list
getTotalAvailableCards_UnknownAsOne(ids, all) ==
    IF ids = <<>> THEN 0
    ELSE (IF Head(ids) \in DOMAIN all THEN Len(all[Head(ids)]) ELSE 1)
         + getTotalAvailableCards(Tail(ids), all)

getTotalAvailableCards(ids, all) ==
    IF ids = <<>> THEN 0
    ELSE Len(CardsOfDeck(all, Head(ids))) + getTotalAvailableCards(Tail(ids), all)

\* The four messages; the template literal keeps its two numbers.
ErrNoDecks == <<"Please select at least one deck">>
ErrInvalidCount == <<"Number of cards must be greater than 0">>
ErrEmptyDecks == <<"Selected decks contain no cards">>
ErrInsufficient(requested, available) ==
    <<"Requested", requested, "cards but only", available, "available">>

\* validateCardMixingParams with its first two checks in the other order
validateCardMixingParams_CountFirst(ids, n, all) ==
    IF n <= 0 THEN [valid |-> FALSE, error |-> ErrInvalidCount]
    ELSE IF Len(ids) = 0 THEN [valid |-> FALSE, error |-> ErrNoDecks]
    ELSE LET totalAvailable == getTotalAvailableCards(ids, all) IN
         IF totalAvailable = 0 THEN [valid |-> FALSE, error |-> ErrEmptyDecks]
         ELSE IF n > totalAvailable
              THEN [valid |-> FALSE,
                    error |-> ErrInsufficient(n, totalAvailable),
                    maxAvailable |-> totalAvailable]
         ELSE [valid |-> TRUE]

validateCardMixingParams(ids, n, all) ==
    IF Len(ids) = 0 THEN [valid |-> FALSE, error |-> ErrNoDecks]
    ELSE IF n <= 0 THEN [valid |-> FALSE, error |-> ErrInvalidCount]
    ELSE LET totalAvailable == getTotalAvailableCards(ids, all) IN
         IF totalAvailable = 0 THEN [valid |-> FALSE, error |-> ErrEmptyDecks]
         ELSE IF n > totalAvailable
              THEN [valid |-> FALSE,
                    error |-> ErrInsufficient(n, totalAvailable),
                    maxAvailable |-> totalAvailable]
         ELSE [valid |-> TRUE]

----------------------------------------------------------------------------
(* mixCards *)

\* mixCards decorating the whole pool in a random order, never cut to n
mixCards_WholePool(ids, n, all, decks, draws) ==
    LET validation == validateCardMixingParams(ids, n, all) IN
    IF ~validation.valid
    THEN [success |-> FALSE, error |-> validation.error]
    ELSE LET combinedCards == combineCardsFromDecks(ids, all)
             selectedCards == shuffleCards(combinedCards, draws)
             mixedCards == createMixedCards(selectedCards, decks)
         IN  [success |-> TRUE, mixedCards |-> mixedCards]

\* mixCards replacing the validator's reason by a generic message
mixCards_GenericError(ids, n, all, decks, draws) ==
    LET validation == validateCardMixingParams(ids, n, all) IN
    IF ~validation.valid
    THEN [success |-> FALSE, error |-> <<"Failed to mix cards">>]
    ELSE LET combinedCards == combineCardsFromDecks(ids, all)
             selectedCards == selectRandomCards(combinedCards, n, draws)
             mixedCards == createMixedCards(selectedCards, decks)
         IN  [success |-> TRUE, mixedCards |-> mixedCards]

mixCards(ids, n, all, decks, draws) ==
    LET validation == validateCardMixingParams(ids, n, all) IN
    IF ~validation.valid
    THEN [success |-> FALSE, error |-> validation.error]
    ELSE LET combinedCards == combineCardsFromDecks(ids, all)
             selectedCards == selectRandomCards(combinedCards, n, draws)
             mixedCards == createMixedCards(selectedCards, decks)
         IN  [success |-> TRUE, mixedCards |-> mixedCards]

\* the functions validateCardMixingParams enters, in call order: the total is
\* computed only after the first two checks have passed
validateCardMixingParamsCalls(ids, n) ==
    IF Len(ids) = 0 \/ n <= 0
    THEN <<"validateCardMixingParams">>
    ELSE <<"validateCardMixingParams", "getTotalAvailableCards">>

\* the functions mixCards enters, in call order; none of them throws on the
\* typed inputs drawn here, so the catch branch is never taken
mixCardsCalls(ids, n, all) ==
    IF ~validateCardMixingParams(ids, n, all).valid
    THEN <<"mixCards">> \o validateCardMixingParamsCalls(ids, n)
    ELSE <<"mixCards">> \o validateCardMixingParamsCalls(ids, n) \o
         <<"combineCardsFromDecks", "selectRandomCards", "shuffleCards",
           "createMixedCards">>

----------------------------------------------------------------------------
(* FlashcardStorageManager: the document under STORAGE_KEY.  A Date is the *)
(* day it falls on; JSON.stringify writes it as an ISO string, which        *)
(* getStorageData turns back into a Date.                                   *)

STORAGE_VERSION == "1.0.0"
MaxMixingSessions == 10
ThirtyDays == 30

ToISOString(date) == <<"ISO", date>>
NewDate(iso) == iso[2]

\* JSON.stringify / JSON.parse of the session list
StringifySessions(sessions) ==
    [k \in 1..Len(sessions) |->
        [sessions[k] EXCEPT !.timestamp = ToISOString(sessions[k].timestamp)]]

ReviveSessions(stored) ==
    [k \in 1..Len(stored) |->
        [stored[k] EXCEPT !.timestamp = NewDate(stored[k].timestamp)]]

\* A deck's or a card's createdAt, where the record carries it, goes through
\* the same conversion: new Date(deck.createdAt), new Date(card.createdAt)
StringifyDated(record) ==
    IF "createdAt" \in DOMAIN record
    THEN [record EXCEPT !.createdAt = ToISOString(record.createdAt)] ELSE record

ReviveDated(record) ==
    IF "createdAt" \in DOMAIN record
    THEN [record EXCEPT !.createdAt = NewDate(record.createdAt)] ELSE record

StringifyDecks(decks) == [k \in DOMAIN decks |-> StringifyDated(decks[k])]

ReviveDecks(stored) == [k \in DOMAIN stored |-> ReviveDated(stored[k])]

StringifyCards(cardArrays) ==
    [k \in DOMAIN cardArrays |->
        [i \in 1..Len(cardArrays[k]) |-> StringifyDated(cardArrays[k][i])]]

ReviveCards(stored) ==
    [k \in DOMAIN stored |->
        [i \in 1..Len(stored[k]) |-> ReviveDated(stored[k][i])]]

\* what localStorage.getItem(STORAGE_KEY) can hold
AbsentItem == [kind |-> "absent"]
CorruptItem == [kind |-> "corrupt"]
LegacyItem == [kind |-> "doc", decks |-> <<>>, cards |-> <<>>, version |-> STORAGE_VERSION]
StoredItem(data) ==
    [kind |-> "doc", decks |-> StringifyDecks(data.decks),
     cards |-> StringifyCards(data.cards),
     mixingSessions |-> StringifySessions(data.mixingSessions),
     version |-> data.version]

\* initializeStorage's initialData
InitialData ==
    [decks |-> <<>>, cards |-> <<>>, mixingSessions |-> <<>>, version |-> STORAGE_VERSION]

Faults == {"none", "unavailable", "quota"}
ErrUnavailable == <<"localStorage is not available">>
ErrQuota == <<"Storage quota exceeded. Please delete some decks to free up space.">>

\* saveStorageData(data) under a fault: the item afterwards, or the error thrown
saveStorageData(item, data, fault) ==
    IF fault = "unavailable" THEN [thrown |-> ErrUnavailable, storage |-> item]
    ELSE IF fault = "quota" THEN [thrown |-> ErrQuota, storage |-> item]
    ELSE [storage |-> StoredItem(data)]

\* initializeStorage(): writes the empty document and returns it
initializeStorage(item, fault) ==
    LET saved == saveStorageData(item, InitialData, fault) IN
    IF "thrown" \in DOMAIN saved THEN saved
    ELSE [data |-> InitialData, storage |-> saved.storage]

\* getStorageData(): the parsed document (and the item, which it rewrites when
\* the item is missing or unparseable), or the error thrown
getStorageData(item, fault) ==
    IF fault = "unavailable" THEN [thrown |-> ErrUnavailable, storage |-> item]
    ELSE IF item.kind = "absent" THEN initializeStorage(item, fault)
    ELSE IF item.kind = "corrupt" THEN initializeStorage(item, fault)
    ELSE [data |-> [decks |-> ReviveDecks(item.decks),
                    cards |-> ReviveCards(item.cards),
                    mixingSessions |->
                        IF "mixingSessions" \in DOMAIN item
                        THEN ReviveSessions(item.mixingSessions) ELSE <<>>,
                    version |-> item.version],
          storage |-> item]

\* the persisted session list as a reader sees it
PersistedSessions(item) ==
    IF item.kind = "doc" /\ "mixingSessions" \in DOMAIN item
    THEN ReviveSessions(item.mixingSessions) ELSE <<>>

\* `mixing_${Date.now()}_${Math.random().toString(36).substr(2, 9)}`
SessionId(date, suffix) == <<"mixing", date, suffix>>

\* saveMixingSession without the truncation
WithNewSession_Untruncated(newSession, sessions) == <<newSession>> \o sessions

\* saveMixingSession putting the new session behind the others
WithNewSession_Appended(newSession, sessions) ==
    Slice(sessions \o <<newSession>>, 0, MaxMixingSessions)

\* saveMixingSession: newest first, at most MaxMixingSessions kept
WithNewSession(newSession, sessions) ==
    Slice(<<newSession>> \o sessions, 0, MaxMixingSessions)

\* deleteMixingSession keeping only the entry it was asked to remove
WithoutSession_KeepOnly(sessions, sessionId) ==
    SelectSeq(sessions, LAMBDA session : session.id = sessionId)

\* deleteMixingSession's filter
WithoutSession(sessions, sessionId) ==
    SelectSeq(sessions, LAMBDA session : session.id # sessionId)

\* cleanupOldMixingSessions: new Date() moved back by setDate(getDate() - 30)
ThirtyDaysAgo(date) == date - ThirtyDays

\* the cleanup filter with its comparison turned round
KeptByCleanup_Older(session, thirtyDaysAgo) == session.timestamp < thirtyDaysAgo

KeptByCleanup(session, thirtyDaysAgo) == session.timestamp > thirtyDaysAgo

WithoutOldSessions(sessions, date) ==
    SelectSeq(sessions, LAMBDA session : KeptByCleanup(session, ThirtyDaysAgo(date)))

\* data.mixingSessions || [] of the document a call has read
SessionsRead(got) ==
    IF "thrown" \in DOMAIN got THEN <<>> ELSE got.data.mixingSessions

\* the write that ends a mutating call: the document read, with its session
\* list replaced, goes to saveStorageData (nothing is written if the read threw)
StorageUpdate(got, newSessions, fault) ==
    IF "thrown" \in DOMAIN got THEN got
    ELSE saveStorageData(got.storage,
                         [got.data EXCEPT !.mixingSessions = newSessions],
                         fault)

Outcome(update, value) ==
    IF "thrown" \in DOMAIN update THEN [thrown |-> update.thrown]
    ELSE [returned |-> value]

Returned == "returned" \in DOMAIN result
Threw == "thrown" \in DOMAIN result

\* saveMixingSession(session); suffix is the outcome of Math.random()
SaveMixingSession(session, suffix, fault) ==
    LET newSession == [id |-> SessionId(now, suffix),
                       selectedDeckIds |-> session.selectedDeckIds,
                       cardCount |-> session.cardCount,
                       timestamp |-> now]
        got == getStorageData(storage, fault)
        update == StorageUpdate(got, WithNewSession(newSession, SessionsRead(got)), fault)
    IN  /\ storage' = update.storage
        /\ op' = "saveMixingSession"
        /\ result' = Outcome(update, newSession)
        /\ before' = PersistedSessions(storage)
        /\ recordedInRow' = IF "thrown" \in DOMAIN update THEN recordedInRow
                            ELSE Append(recordedInRow, newSession)
        /\ recordsDone' = IF "thrown" \in DOMAIN update THEN recordsDone
                          ELSE recordsDone + 1
        /\ called' = [argument |-> session, fault |-> fault]
        /\ UNCHANGED <<inputVars, calls, now, clockMonotone, deletesDone, clockMoves>>
        /\ UNCHANGED <<uiVars, tabVars>>

\* deleteMixingSession(sessionId)
DeleteMixingSession(sessionId, fault) ==
    LET got == getStorageData(storage, fault)
        update == StorageUpdate(got, WithoutSession(SessionsRead(got), sessionId), fault)
    IN  /\ storage' = update.storage
        /\ op' = "deleteMixingSession"
        /\ result' = Outcome(update, "void")
        /\ before' = PersistedSessions(storage)
        /\ recordedInRow' = IF "thrown" \in DOMAIN update THEN recordedInRow ELSE <<>>
        /\ deletesDone' = IF "thrown" \in DOMAIN update THEN deletesDone
                          ELSE deletesDone + 1
        /\ called' = [argument |-> sessionId, fault |-> fault]
        /\ UNCHANGED <<inputVars, calls, now, clockMonotone, recordsDone, clockMoves>>
        /\ UNCHANGED <<uiVars, tabVars>>

\* cleanupOldMixingSessions()
CleanupOldMixingSessions(fault) ==
    LET got == getStorageData(storage, fault)
        update == StorageUpdate(got, WithoutOldSessions(SessionsRead(got), now), fault)
    IN  /\ storage' = update.storage
        /\ op' = "cleanupOldMixingSessions"
        /\ result' = Outcome(update, "void")
        /\ before' = PersistedSessions(storage)
        /\ recordedInRow' = IF "thrown" \in DOMAIN update THEN recordedInRow ELSE <<>>
        /\ called' = [fault |-> fault]
        /\ UNCHANGED <<inputVars, calls, now, clockMonotone, recordsDone,
                       deletesDone, clockMoves>>
        /\ UNCHANGED <<uiVars, tabVars>>

\* time passes, or the system clock is set back
ClockMoves(step) ==
    /\ now + step >= 0
    /\ now' = now + step
    /\ clockMonotone' = (clockMonotone /\ step >= 0)
    /\ clockMoves' = clockMoves + 1
    /\ op' = "clock"
    /\ result' = NoResult
    /\ called' = NoCall
    /\ UNCHANGED <<inputVars, calls, storage, before, recordedInRow,
                   recordsDone, deletesDone>>
    /\ UNCHANGED <<uiVars, tabVars>>

\* the browser tabs that have the application open
TabIds == {1, 2}

\* a tab outside any store call, having started begun calls so far
IdleTab(begun) == [pc |-> "idle", begun |-> begun]

\* the tabs while a single one is followed
TabsIdle ==
    /\ tabs = [t \in TabIds |-> IdleTab(0)]
    /\ completed = {}
    /\ overlapped = FALSE

\* the history part while only the mixing functions are exercised
HistoryIdle ==
    /\ storage = AbsentItem
    /\ now = 0
    /\ clockMonotone = TRUE
    /\ before = <<>>
    /\ recordedInRow = <<>>
    /\ recordsDone = 0
    /\ deletesDone = 0
    /\ clockMoves = 0
    /\ called = NoCall
    /\ TabsIdle

\* the interface part while only library functions are exercised
UiIdle ==
    /\ currentView = "deck-list"
    /\ mixingSession = Null
    /\ currentSession = Null
    /\ errors = <<>>
    /\ reshuffles = NoReshuffles
    /\ requestedCardCount = 5
    /\ maxAvailable = 0
    /\ validationError = ""
    /\ recentSessions = <<>>
    /\ cardCount = 0

----------------------------------------------------------------------------
(* Inputs of the mixing functions *)

RECURSIVE SeqsUpTo(_, _)
SeqsUpTo(S, n) ==
    IF n = 0 THEN {<<>>}
    ELSE LET shorter == SeqsUpTo(S, n - 1)
         IN  shorter \cup {Append(s, x) : s \in {t \in shorter : Len(t) = n - 1}, x \in S}

\* a deck's stored card list: absent from the map, or 0..MaxDeckCards cards
CardMaps ==
    UNION {[D -> 0..MaxDeckCards] : D \in SUBSET DeckIds}

AllCardsOf(sizes) == [d \in DOMAIN sizes |-> CardList(d, sizes[d])]

\* a deck as stored: with a name and a color, or with both strings empty
DeckValues(d) ==
    {[id |-> d, name |-> "Deck", color |-> "#3B82F6"],
     [id |-> d, name |-> "", color |-> ""]}

DeckMaps ==
    UNION {{f \in [D -> UNION {DeckValues(d) : d \in DeckIds}] :
                \A d \in D : f[d] \in DeckValues(d)} : D \in SUBSET DeckIds}

InitMixInputs ==
    /\ selectedDeckIds \in SeqsUpTo(DeckIds, MaxSelected)
    /\ requestedCount \in -1..MaxCount
    /\ \E sizes \in CardMaps : allCards = AllCardsOf(sizes)
    /\ getTotalAvailableCards(selectedDeckIds, allCards) <= MaxPool
    /\ allDecks \in DeckMaps

Init ==
    /\ InitMixInputs
    /\ cards = <<>>
    /\ count = 0
    /\ op = "none"
    /\ result = NoResult
    /\ calls = <<>>
    /\ HistoryIdle
    /\ UiIdle

\* a caller invokes validateCardMixingParams(selectedDeckIds, requestedCount, allCards)
ValidateCardMixingParams ==
    /\ op = "none"
    /\ op' = "validateCardMixingParams"
    /\ result' = validateCardMixingParams(selectedDeckIds, requestedCount, allCards)
    /\ calls' = validateCardMixingParamsCalls(selectedDeckIds, requestedCount)
    /\ UNCHANGED <<inputVars, historyVars, uiVars, tabVars>>

\* a caller invokes mixCards(selectedDeckIds, requestedCount, allCards, allDecks)
MixCards ==
    /\ op = "none"
    /\ \E draws \in Draws(getTotalAvailableCards(selectedDeckIds, allCards)) :
          result' = mixCards(selectedDeckIds, requestedCount, allCards, allDecks, draws)
    /\ op' = "mixCards"
    /\ calls' = mixCardsCalls(selectedDeckIds, requestedCount, allCards)
    /\ UNCHANGED <<inputVars, historyVars, uiVars, tabVars>>

\* a caller invokes combineCardsFromDecks(selectedDeckIds, allCards)
CombineCardsFromDecks ==
    /\ op = "none"
    /\ op' = "combineCardsFromDecks"
    /\ result' = combineCardsFromDecks(selectedDeckIds, allCards)
    /\ calls' = <<"combineCardsFromDecks">>
    /\ UNCHANGED <<inputVars, historyVars, uiVars, tabVars>>

Next == ValidateCardMixingParams \/ MixCards \/ CombineCardsFromDecks

Spec == Init /\ [][Next]_vars

----------------------------------------------------------------------------
(* The sampler on its own: shuffleCards(cards), selectRandomCards(cards, count) *)

InitSampler ==
    /\ cards \in SeqsUpTo(Items, MaxLen)
    /\ count \in -2..(MaxLen + 1)
    /\ selectedDeckIds = <<>>
    /\ requestedCount = 0
    /\ allCards = <<>>
    /\ allDecks = <<>>
    /\ op = "none"
    /\ result = NoResult
    /\ calls = <<>>
    /\ HistoryIdle
    /\ UiIdle

ShuffleCards ==
    /\ op = "none"
    /\ \E draws \in Draws(Len(cards)) : result' = shuffleCards(cards, draws)
    /\ op' = "shuffleCards"
    /\ calls' = <<"shuffleCards">>
    /\ UNCHANGED <<inputVars, historyVars, uiVars, tabVars>>

SelectRandomCards ==
    /\ op = "none"
    /\ \E draws \in Draws(Len(cards)) : result' = selectRandomCards(cards, count, draws)
    /\ op' = "selectRandomCards"
    /\ calls' = <<"selectRandomCards", "shuffleCards">>
    /\ UNCHANGED <<inputVars, historyVars, uiVars, tabVars>>

NextSampler == ShuffleCards \/ SelectRandomCards

SpecSampler == InitSampler /\ [][NextSampler]_vars

----------------------------------------------------------------------------
(* The session history: saveMixingSession, deleteMixingSession and         *)
(* cleanupOldMixingSessions on a store whose history starts empty.         *)

SessionInputs == {[selectedDeckIds |-> <<"A", "B">>, cardCount |-> 4]}

UnknownSessionId == SessionId(-1, -1)

SessionIds(sessions) == {sessions[k].id : k \in 1..Len(sessions)}

\* the identifiers deleteMixingSession is tried with: every stored one and
\* one that is not stored (a call that throws does not look at its argument)
DeleteTargets(fault) ==
    IF fault = "none"
    THEN SessionIds(PersistedSessions(storage)) \cup {UnknownSessionId}
    ELSE {UnknownSessionId}

InitHistory ==
    /\ storage \in {AbsentItem, CorruptItem, LegacyItem, StoredItem(InitialData)}
    /\ now = 0
    /\ clockMonotone = TRUE
    /\ before = <<>>
    /\ recordedInRow = <<>>
    /\ recordsDone = 0
    /\ deletesDone = 0
    /\ clockMoves = 0
    /\ called = NoCall
    /\ TabsIdle
    /\ UiIdle
    /\ selectedDeckIds = <<>>
    /\ requestedCount = 0
    /\ allCards = <<>>
    /\ allDecks = <<>>
    /\ cards = <<>>
    /\ count = 0
    /\ op = "none"
    /\ result = NoResult
    /\ calls = <<>>

\* Math.random() gives each session a suffix no earlier session got.
\* Up to MaxRecords sessions, with the clock jumping past the 30 days or back.
NextHistory ==
    \/ /\ recordsDone < MaxRecords
       /\ \E session \in SessionInputs, fault \in Faults :
             SaveMixingSession(session, recordsDone, fault)
    \/ /\ deletesDone < MaxDeletes
       /\ \E fault \in Faults :
             \E sessionId \in DeleteTargets(fault) :
                DeleteMixingSession(sessionId, fault)
    \/ \E fault \in Faults : CleanupOldMixingSessions(fault)
    \/ /\ clockMoves < MaxClockMoves
       /\ \E step \in ClockSteps : ClockMoves(step)

SpecHistory == InitHistory /\ [][NextHistory]_vars

\* A few sessions, with the clock moving by single days around the 30 days.
NextAging ==
    \/ /\ recordsDone < MaxAgingRecords
       /\ \E session \in SessionInputs, fault \in Faults :
             SaveMixingSession(session, recordsDone, fault)
    \/ /\ deletesDone < MaxDeletes
       /\ \E fault \in Faults :
             \E sessionId \in DeleteTargets(fault) :
                DeleteMixingSession(sessionId, fault)
    \/ \E fault \in Faults : CleanupOldMixingSessions(fault)
    \/ /\ clockMoves < MaxAgingClockMoves
       /\ \E step \in AgingClockSteps : ClockMoves(step)

SpecAging == InitHistory /\ [][NextAging]_vars

----------------------------------------------------------------------------
(* FlashcardAppContent (src/unnamed/part_002): the mixing handlers.  The    *)
(* component's decks and allCards are the variables allDecks (as the        *)
(* decksMap handleMixCards builds from decks) and allCards.                 *)

MaxAppDeckCards == 1
MaxAppCount == 2
MaxAppCalls == 2

\* a Deck as the storage layer keeps it (createdAt plays no part)
DeckRecord(d, n) == [id |-> d, name |-> "Deck", color |-> "#3B82F6", cardCount |-> n]

\* handleMixCards never gives up on a result
MixingFailed_Never(mixed) == FALSE

\* if (!result.success || !result.mixedCards)
MixingFailed(mixed) == ~mixed.success \/ "mixedCards" \notin DOMAIN mixed

\* the call of saveMixingSession with no try around it
SaveAttempt_Unguarded(update) ==
    IF "thrown" \in DOMAIN update THEN [thrown |-> update.thrown]
    ELSE [saved |-> TRUE]

\* the try around saveMixingSession: its catch warns and goes on
SaveAttempt(update) ==
    IF "thrown" \in DOMAIN update THEN [warned |-> update.thrown]
    ELSE [saved |-> TRUE]

\* addError(error): the entry the error context receives
ErrorEntry(type, title, message) ==
    [type |-> type, title |-> title, message |-> message]

\* handleMixCards(ids, n): draws are the outcomes of Math.random() inside
\* mixCards, fault is the state of localStorage during saveMixingSession
MixCardsHandled(ids, n, draws, fault) ==
    LET mixed == mixCards(ids, n, allCards, allDecks, draws)
        session == [selectedDeckIds |-> ids, cardCount |-> n]
        newSession == [id |-> SessionId(now, recordsDone),
                       selectedDeckIds |-> ids,
                       cardCount |-> n,
                       timestamp |-> now]
        got == getStorageData(storage, fault)
        update == StorageUpdate(got, WithNewSession(newSession, SessionsRead(got)), fault)
        attempt == SaveAttempt(update)
    IN  /\ op' = "handleMixCards"
        /\ result' = mixed
        /\ selectedDeckIds' = ids
        /\ requestedCount' = n
        /\ before' = PersistedSessions(storage)
        /\ IF MixingFailed(mixed)
           THEN /\ errors' = Append(errors,
                        ErrorEntry("error", "Card Mixing Failed",
                                   IF "error" \in DOMAIN mixed THEN mixed.error
                                   ELSE <<"Failed to mix cards">>))
                /\ calls' = <<"handleMixCards">> \o mixCardsCalls(ids, n, allCards)
                                \o <<"addError">>
                /\ called' = NoCall
                /\ UNCHANGED <<storage, recordsDone, recordedInRow,
                               currentView, mixingSession>>
           ELSE /\ storage' = update.storage
                /\ called' = [argument |-> session, fault |-> fault]
                /\ recordedInRow' = IF "thrown" \in DOMAIN update THEN recordedInRow
                                    ELSE Append(recordedInRow, newSession)
                /\ recordsDone' = IF "thrown" \in DOMAIN update THEN recordsDone
                                  ELSE recordsDone + 1
                /\ IF "thrown" \in DOMAIN attempt
                   THEN /\ errors' = Append(errors,
                                ErrorEntry("error", "Card Mixing Error", attempt.thrown))
                        /\ calls' = <<"handleMixCards">> \o mixCardsCalls(ids, n, allCards)
                                        \o <<"saveMixingSession", "addError">>
                        /\ UNCHANGED <<currentView, mixingSession>>
                   ELSE /\ mixingSession' =
                              [mixedCards |-> IF "mixedCards" \in DOMAIN mixed
                                              THEN mixed.mixedCards ELSE Undefined,
                               selectedDeckIds |-> ids,
                               cardCount |-> n]
                        /\ currentView' = "mixed-display"
                        /\ calls' = <<"handleMixCards">> \o mixCardsCalls(ids, n, allCards)
                                        \o <<"saveMixingSession">>
                                        \o (IF "warned" \in DOMAIN attempt
                                            THEN <<"console.warn">> ELSE <<>>)
                        /\ UNCHANGED errors
        /\ UNCHANGED <<allCards, allDecks, cards, count, now, clockMonotone,
                       deletesDone, clockMoves, mixerVars, cardCount, tabVars,
                       currentSession>>

\* handleMixCards(ids, n) where reshuffles are not counted
HandleMixCards(ids, n, draws, fault) ==
    /\ MixCardsHandled(ids, n, draws, fault)
    /\ UNCHANGED reshuffles

\* handleStartCardMixing(), bound to the deck list's 'Mix Cards' button
HandleStartCardMixing ==
    /\ currentView = "deck-list"
    /\ currentView' = "card-mixer"
    /\ op' = "handleStartCardMixing"
    /\ result' = NoResult
    /\ calls' = <<"handleStartCardMixing">>
    /\ UNCHANGED <<inputVars, historyVars, mixingSession, errors, mixerVars,
                   cardCount, tabVars, currentSession,
                   reshuffles>>

\* handleBackToCardMixer(), bound to the mixed display's back button
HandleBackToCardMixer ==
    /\ currentView = "mixed-display"
    /\ currentView' = "card-mixer"
    /\ mixingSession' = Null
    /\ op' = "handleBackToCardMixer"
    /\ result' = NoResult
    /\ calls' = <<"handleBackToCardMixer">>
    /\ UNCHANGED <<inputVars, historyVars, errors, mixerVars, cardCount, tabVars,
                   currentSession,
                   reshuffles>>

\* the selections and counts CardMixer's onMixCards is tried with
AppSelections == {<<>>, <<"A">>, <<"A", "B">>}

AppCounts == 0..MaxAppCount

InitApp ==
    /\ \E sizes \in [DeckIds -> 0..MaxAppDeckCards] :
          /\ allCards = AllCardsOf(sizes)
          /\ allDecks = [d \in DeckIds |-> DeckRecord(d, sizes[d])]
          /\ storage = StoredItem([decks |-> allDecks, cards |-> allCards,
                                   mixingSessions |-> <<>>,
                                   version |-> STORAGE_VERSION])
    /\ currentView = "deck-list"
    /\ mixingSession = Null
    /\ currentSession = Null
    /\ errors = <<>>
    /\ reshuffles = NoReshuffles
    /\ requestedCardCount = 5
    /\ maxAvailable = 0
    /\ validationError = ""
    /\ recentSessions = <<>>
    /\ cardCount = 0
    /\ selectedDeckIds = <<>>
    /\ requestedCount = 0
    /\ cards = <<>>
    /\ count = 0
    /\ op = "none"
    /\ result = NoResult
    /\ calls = <<>>
    /\ now = 0
    /\ clockMonotone = TRUE
    /\ before = <<>>
    /\ recordedInRow = <<>>
    /\ recordsDone = 0
    /\ deletesDone = 0
    /\ clockMoves = 0
    /\ called = NoCall
    /\ TabsIdle

\* the outcomes of Math.random() and of localStorage that a call can meet:
\* a call whose validation fails reaches neither
MixDraws(ids, n) ==
    IF validateCardMixingParams(ids, n, allCards).valid
    THEN Draws(getTotalAvailableCards(ids, allCards)) ELSE {<<>>}

MixFaults(ids, n) ==
    IF validateCardMixingParams(ids, n, allCards).valid THEN Faults ELSE {"none"}

\* handleReshuffle() re-enters handleMixCards with the parameters on display;
\* mixing stops once MaxAppCalls calls have left a record or an error
NextApp ==
    \/ HandleStartCardMixing
    \/ /\ currentView = "card-mixer"
       /\ recordsDone + Len(errors) < MaxAppCalls
       /\ \E ids \in AppSelections, n \in AppCounts :
             \E draws \in MixDraws(ids, n), fault \in MixFaults(ids, n) :
                HandleMixCards(ids, n, draws, fault)
    \/ /\ currentView = "mixed-display"
       /\ mixingSession # Null
       /\ recordsDone + Len(errors) < MaxAppCalls
       /\ \E draws \in MixDraws(mixingSession.selectedDeckIds, mixingSession.cardCount),
             fault \in MixFaults(mixingSession.selectedDeckIds, mixingSession.cardCount) :
                HandleMixCards(mixingSession.selectedDeckIds,
                               mixingSession.cardCount, draws, fault)
    \/ HandleBackToCardMixer

SpecApp == InitApp /\ [][NextApp]_vars

----------------------------------------------------------------------------
(* The readers of the session history, next to its writers *)

RecentSessions == 5
MaxReadRecords == 6

\* getMixingSessions(): what it returns, the item afterwards, and the error its
\* catch logged when getStorageData threw
getMixingSessions(item, fault) ==
    LET got == getStorageData(item, fault) IN
    IF "thrown" \in DOMAIN got
    THEN [returned |-> <<>>, storage |-> got.storage, logged |-> got.thrown]
    ELSE [returned |-> got.data.mixingSessions, storage |-> got.storage]

\* getRecentMixingSessions(): sessions.slice(0, 5)
getRecentMixingSessions(item, fault) ==
    LET sessions == getMixingSessions(item, fault) IN
    [sessions EXCEPT !.returned = Slice(sessions.returned, 0, RecentSessions)]

GetMixingSessions(fault) ==
    LET read == getMixingSessions(storage, fault)
    IN  /\ storage' = read.storage
        /\ op' = "getMixingSessions"
        /\ result' = [returned |-> read.returned]
        /\ before' = PersistedSessions(storage)
        /\ called' = [fault |-> fault]
        /\ UNCHANGED <<inputVars, calls, now, clockMonotone, recordedInRow,
                       recordsDone, deletesDone, clockMoves>>
        /\ UNCHANGED <<uiVars, tabVars>>

GetRecentMixingSessions(fault) ==
    LET read == getRecentMixingSessions(storage, fault)
    IN  /\ storage' = read.storage
        /\ op' = "getRecentMixingSessions"
        /\ result' = [returned |-> read.returned]
        /\ before' = PersistedSessions(storage)
        /\ called' = [fault |-> fault]
        /\ UNCHANGED <<inputVars, calls, now, clockMonotone, recordedInRow,
                       recordsDone, deletesDone, clockMoves>>
        /\ UNCHANGED <<uiVars, tabVars>>

\* Up to MaxReadRecords sessions saved, read back at every point in between.
NextReads ==
    \/ /\ recordsDone < MaxReadRecords
       /\ \E session \in SessionInputs, fault \in Faults :
             SaveMixingSession(session, recordsDone, fault)
    \/ /\ deletesDone < MaxDeletes
       /\ \E fault \in Faults :
             \E sessionId \in DeleteTargets(fault) :
                DeleteMixingSession(sessionId, fault)
    \/ \E fault \in Faults : CleanupOldMixingSessions(fault)
    \/ \E fault \in Faults : GetMixingSessions(fault)
    \/ \E fault \in Faults : GetRecentMixingSessions(fault)

SpecReads == InitHistory /\ [][NextReads]_vars

----------------------------------------------------------------------------
(* calculateGridLayout.  On the counts of the model Math.sqrt is exact on   *)
(* perfect squares and strictly between two integers elsewhere, and the     *)
(* quotients are far from the rounding error of a double, so Math.ceil of    *)
(* them is the integer ceiling.                                              *)

MaxCardCount == 120

\* Math.ceil(a / b) for a >= 0, b > 0
CeilDiv(a, b) == (a + b - 1) \div b

\* Math.ceil(Math.sqrt(n)) for n >= 0
CeilSqrt(n) == CHOOSE c \in 0..n : c * c >= n /\ \A b \in 0..(c - 1) : b * b < n

\* calculateGridLayout with < in place of <= at its breakpoints
calculateGridLayout_StrictBreaks(n) ==
    IF n <= 0 THEN [rows |-> 0, cols |-> 0]
    ELSE IF n < 3 THEN [rows |-> 1, cols |-> n]
    ELSE IF n < 6 THEN [rows |-> 2, cols |-> CeilDiv(n, 2)]
    ELSE IF n < 9 THEN [rows |-> 3, cols |-> CeilDiv(n, 3)]
    ELSE LET cols == CeilSqrt(n)
             rows == CeilDiv(n, cols)
         IN  [rows |-> rows, cols |-> cols]

\* calculateGridLayout with a square grid from 10 cards on
calculateGridLayout_Square(n) ==
    IF n <= 0 THEN [rows |-> 0, cols |-> 0]
    ELSE IF n <= 3 THEN [rows |-> 1, cols |-> n]
    ELSE IF n <= 6 THEN [rows |-> 2, cols |-> CeilDiv(n, 2)]
    ELSE IF n <= 9 THEN [rows |-> 3, cols |-> CeilDiv(n, 3)]
    ELSE LET cols == CeilSqrt(n)
             rows == cols
         IN  [rows |-> rows, cols |-> cols]

\* calculateGridLayout taking the root for the rows from 10 cards on
calculateGridLayout_RowsFirst(n) ==
    IF n <= 0 THEN [rows |-> 0, cols |-> 0]
    ELSE IF n <= 3 THEN [rows |-> 1, cols |-> n]
    ELSE IF n <= 6 THEN [rows |-> 2, cols |-> CeilDiv(n, 2)]
    ELSE IF n <= 9 THEN [rows |-> 3, cols |-> CeilDiv(n, 3)]
    ELSE LET rows == CeilSqrt(n)
             cols == CeilDiv(n, rows)
         IN  [rows |-> rows, cols |-> cols]

calculateGridLayout(n) ==
    IF n <= 0 THEN [rows |-> 0, cols |-> 0]
    ELSE IF n <= 3 THEN [rows |-> 1, cols |-> n]
    ELSE IF n <= 6 THEN [rows |-> 2, cols |-> CeilDiv(n, 2)]
    ELSE IF n <= 9 THEN [rows |-> 3, cols |-> CeilDiv(n, 3)]
    ELSE LET cols == CeilSqrt(n)
             rows == CeilDiv(n, cols)
         IN  [rows |-> rows, cols |-> cols]

InitLayout ==
    /\ cardCount \in -1..MaxCardCount
    /\ currentView = "deck-list"
    /\ mixingSession = Null
    /\ currentSession = Null
    /\ errors = <<>>
    /\ reshuffles = NoReshuffles
    /\ requestedCardCount = 5
    /\ maxAvailable = 0
    /\ validationError = ""
    /\ recentSessions = <<>>
    /\ selectedDeckIds = <<>>
    /\ requestedCount = 0
    /\ allCards = <<>>
    /\ allDecks = <<>>
    /\ cards = <<>>
    /\ count = 0
    /\ op = "none"
    /\ result = NoResult
    /\ calls = <<>>
    /\ HistoryIdle

CalculateGridLayout ==
    /\ op = "none"
    /\ op' = "calculateGridLayout"
    /\ result' = calculateGridLayout(cardCount)
    /\ calls' = <<"calculateGridLayout">>
    /\ UNCHANGED <<inputVars, historyVars, uiVars, tabVars>>

NextLayout == CalculateGridLayout

SpecLayout == InitLayout /\ [][NextLayout]_vars

----------------------------------------------------------------------------
(* The decks and cards of the document: saveDeck, deleteDeck, getCards,     *)
(* saveCards, addCards, and DeckManager's handleCreateDeck on top of them.  *)

MaxStoredCards == 1
MaxDeckErrors == 1

\* data.decks[k] = v on a Record<string, ...>
MapSet(f, k, v) == [x \in DOMAIN f \cup {k} |-> IF x = k THEN v ELSE f[x]]

\* delete data.decks[k]
MapDelete(f, k) == [x \in DOMAIN f \ {k} |-> f[x]]

\* a write of the changed document, unless the read has thrown
DocumentUpdate(got, data, fault) ==
    IF "thrown" \in DOMAIN got THEN got
    ELSE saveStorageData(got.storage, data, fault)

\* saveDeck writing a fresh document that holds the deck alone
DeckSaved_FreshDocument(data, deck) ==
    [InitialData EXCEPT
        !.decks = MapSet(<<>>, deck.id, deck),
        !.cards = MapSet(<<>>, deck.id, <<>>)]

\* saveDeck's change of the document it has read:
\* data.decks[deck.id] = deck; if (!data.cards[deck.id]) data.cards[deck.id] = []
DeckSaved(data, deck) ==
    [data EXCEPT
        !.decks = MapSet(data.decks, deck.id, deck),
        !.cards = IF deck.id \in DOMAIN data.cards THEN data.cards
                  ELSE MapSet(data.cards, deck.id, <<>>)]

\* saveDeck(deck)
saveDeck(item, deck, fault) ==
    LET got == getStorageData(item, fault) IN
    DocumentUpdate(got,
        IF "thrown" \in DOMAIN got THEN Undefined ELSE DeckSaved(got.data, deck),
        fault)

\* deleteDeck taking along the sessions that name the deck
DeckDeleted_WithItsSessions(data, deckId) ==
    [data EXCEPT
        !.decks = MapDelete(data.decks, deckId),
        !.cards = MapDelete(data.cards, deckId),
        !.mixingSessions =
            SelectSeq(data.mixingSessions,
                      LAMBDA session :
                         \A k \in 1..Len(session.selectedDeckIds) :
                            session.selectedDeckIds[k] # deckId)]

\* deleteDeck's change of the document it has read:
\* delete data.decks[deckId]; delete data.cards[deckId]
DeckDeleted(data, deckId) ==
    [data EXCEPT
        !.decks = MapDelete(data.decks, deckId),
        !.cards = MapDelete(data.cards, deckId)]

\* deleteDeck(deckId)
deleteDeck(item, deckId, fault) ==
    LET got == getStorageData(item, fault) IN
    DocumentUpdate(got,
        IF "thrown" \in DOMAIN got THEN Undefined ELSE DeckDeleted(got.data, deckId),
        fault)

\* getCards(deckId): its catch turns a failed read into []
getCards(item, deckId, fault) ==
    LET got == getStorageData(item, fault) IN
    IF "thrown" \in DOMAIN got
    THEN [returned |-> <<>>, storage |-> got.storage, logged |-> got.thrown]
    ELSE [returned |-> CardsOfDeck(got.data.cards, deckId), storage |-> got.storage]

\* saveCards(deckId, cards)
saveCards(item, deckId, cs, fault) ==
    LET got == getStorageData(item, fault) IN
    DocumentUpdate(got,
        IF "thrown" \in DOMAIN got THEN Undefined
        ELSE [got.data EXCEPT
                 !.cards = MapSet(got.data.cards, deckId, cs),
                 !.decks = IF deckId \in DOMAIN got.data.decks
                           THEN [got.data.decks EXCEPT ![deckId].cardCount = Len(cs)]
                           ELSE got.data.decks],
        fault)

\* addCards(deckId, newCards)
addCards(item, deckId, newCards, fault) ==
    LET existingCards == getCards(item, deckId, fault)
    IN  saveCards(existingCards.storage, deckId, existingCards.returned \o newCards, fault)

\* the decks and cards a reader finds in the item
PersistedDecks(item) == IF item.kind = "doc" THEN ReviveDecks(item.decks) ELSE <<>>

PersistedCards(item) == IF item.kind = "doc" THEN ReviveCards(item.cards) ELSE <<>>

\* m more cards for deck d, numbered on from the n it has
MoreCards(d, n, m) == [k \in 1..m |-> CardOf(d, n + k - 1)]

SaveDeck(deck, fault) ==
    LET update == saveDeck(storage, deck, fault)
    IN  /\ storage' = update.storage
        /\ op' = "saveDeck"
        /\ result' = Outcome(update, "void")
        /\ called' = [argument |-> deck, fault |-> fault]
        /\ before' = PersistedSessions(storage)
        /\ calls' = <<"saveDeck">>
        /\ UNCHANGED <<inputVars, now, clockMonotone, recordedInRow, recordsDone,
                       deletesDone, clockMoves>>
        /\ UNCHANGED <<uiVars, tabVars>>

DeleteDeck(deckId, fault) ==
    LET update == deleteDeck(storage, deckId, fault)
    IN  /\ storage' = update.storage
        /\ op' = "deleteDeck"
        /\ result' = Outcome(update, "void")
        /\ called' = [argument |-> deckId, fault |-> fault]
        /\ before' = PersistedSessions(storage)
        /\ calls' = <<"deleteDeck">>
        /\ UNCHANGED <<inputVars, now, clockMonotone, recordedInRow, recordsDone,
                       deletesDone, clockMoves>>
        /\ UNCHANGED <<uiVars, tabVars>>

SaveCards(deckId, cs, fault) ==
    LET update == saveCards(storage, deckId, cs, fault)
    IN  /\ storage' = update.storage
        /\ op' = "saveCards"
        /\ result' = Outcome(update, "void")
        /\ called' = [argument |-> <<deckId, cs>>, fault |-> fault]
        /\ before' = PersistedSessions(storage)
        /\ calls' = <<"saveCards">>
        /\ UNCHANGED <<inputVars, now, clockMonotone, recordedInRow, recordsDone,
                       deletesDone, clockMoves>>
        /\ UNCHANGED <<uiVars, tabVars>>

AddCards(deckId, newCards, fault) ==
    LET update == addCards(storage, deckId, newCards, fault)
    IN  /\ storage' = update.storage
        /\ op' = "addCards"
        /\ result' = Outcome(update, "void")
        /\ called' = [argument |-> <<deckId, newCards>>, fault |-> fault]
        /\ before' = PersistedSessions(storage)
        /\ calls' = <<"addCards">>
        /\ UNCHANGED <<inputVars, now, clockMonotone, recordedInRow, recordsDone,
                       deletesDone, clockMoves>>
        /\ UNCHANGED <<uiVars, tabVars>>

\* handleCreateDeck(name, color) with importedCards holding n cards: deckId is
\* the fresh identifier, faultOnDeck and faultOnCards the state of localStorage
\* at the two writes.  Only the document, the error list and the calls made
\* are followed; the dialog and loading flags of DeckManager are not.
HandleCreateDeck(deckId, n, faultOnDeck, faultOnCards) ==
    LET newDeck == DeckRecord(deckId, n)
        deckSaved == saveDeck(storage, newDeck, faultOnDeck)
        cardsSaved == saveCards(deckSaved.storage, deckId, CardList(deckId, n), faultOnCards)
        failure == IF "thrown" \in DOMAIN deckSaved THEN deckSaved
                   ELSE IF "thrown" \in DOMAIN cardsSaved THEN cardsSaved
                   ELSE Null
    IN  /\ storage' = IF "thrown" \in DOMAIN deckSaved THEN deckSaved.storage
                      ELSE cardsSaved.storage
        /\ op' = "handleCreateDeck"
        /\ result' = IF failure = Null THEN [returned |-> "void"]
                     ELSE [caught |-> failure.thrown]
        /\ errors' = IF failure = Null THEN errors
                     ELSE Append(errors,
                             ErrorEntry("error", "Failed to Create Deck", failure.thrown))
        /\ calls' = IF "thrown" \in DOMAIN deckSaved
                    THEN <<"handleCreateDeck", "saveDeck", "addError">>
                    ELSE IF "thrown" \in DOMAIN cardsSaved
                    THEN <<"handleCreateDeck", "saveDeck", "saveCards", "addError">>
                    ELSE <<"handleCreateDeck", "saveDeck", "saveCards", "loadDecks",
                           "showSuccess">>
        /\ called' = [argument |-> newDeck, fault |-> faultOnCards]
        /\ before' = PersistedSessions(storage)
        /\ UNCHANGED <<inputVars, now, clockMonotone, recordedInRow, recordsDone,
                       deletesDone, clockMoves>>
        /\ UNCHANGED <<currentView, mixingSession, mixerVars, cardCount, tabVars,
                       currentSession,
                       reshuffles>>

CardsHeld(deckId) == Len(CardsOfDeck(PersistedCards(storage), deckId))

\* the Deck values saveDeck is tried with
DeckInputs == {DeckRecord(d, n) : d \in DeckIds, n \in 0..MaxStoredCards}

\* every write keeps a deck at MaxStoredCards cards or fewer
NextDecks ==
    \/ \E deck \in DeckInputs, fault \in Faults : SaveDeck(deck, fault)
    \/ \E deckId \in DeckIds, fault \in Faults : DeleteDeck(deckId, fault)
    \/ \E deckId \in DeckIds, n \in 0..MaxStoredCards, fault \in Faults :
          SaveCards(deckId, CardList(deckId, n), fault)
    \/ \E deckId \in DeckIds, m \in 1..MaxStoredCards, fault \in Faults :
          /\ CardsHeld(deckId) + m <= MaxStoredCards
          /\ AddCards(deckId, MoreCards(deckId, CardsHeld(deckId), m), fault)
    \/ /\ Len(errors) < MaxDeckErrors
       /\ \E deckId \in DeckIds \ DOMAIN PersistedDecks(storage) :
             \E n \in 1..MaxStoredCards, faultOnDeck \in Faults, faultOnCards \in Faults :
                HandleCreateDeck(deckId, n, faultOnDeck, faultOnCards)

SpecDecks == InitHistory /\ [][NextDecks]_vars

----------------------------------------------------------------------------
(* CardMixer (src/src/components/flashcard/CardMixer.tsx).  Its props decks *)
(* and allCards are the variables allDecks and allCards, its state          *)
(* selectedDeckIds the variable of that name.  A handler's action includes   *)
(* the render that follows it and the effect that render triggers.           *)

QuickCounts == {3, 5, 7, 10}

Includes(seq, x) == \E k \in 1..Len(seq) : seq[k] = x

NaN == [nan |-> TRUE]

Digits == <<"0", "1", "2", "3", "4", "5", "6", "7", "8", "9">>

IsDigit(c) == Includes(Digits, c)

DigitValue(c) == (CHOOSE k \in 1..10 : Digits[k] = c) - 1

\* the digits at the front of value, read as a number (NaN if there are none)
RECURSIVE LeadingNumber(_, _, _)
LeadingNumber(value, seen, number) ==
    IF value # <<>> /\ IsDigit(Head(value))
    THEN LeadingNumber(Tail(value), TRUE, 10 * number + DigitValue(Head(value)))
    ELSE IF seen THEN [value |-> number] ELSE NaN

\* parseInt(value, 10) of the text of the input, one character per element
ParseInt(value) ==
    IF value # <<>> /\ Head(value) = "-"
    THEN LET magnitude == LeadingNumber(Tail(value), FALSE, 0)
         IN  IF magnitude = NaN THEN NaN ELSE [value |-> 0 - magnitude.value]
    ELSE LeadingNumber(value, FALSE, 0)

\* the effect on [selectedDeckIds, allCards, requestedCardCount], run until
\* its own setRequestedCardCount no longer changes anything
MixerEffect(selected, requested) ==
    LET total == getTotalAvailableCards(selected, allCards) IN
    [maxAvailable |-> total,
     validationError |-> "",
     requestedCardCount |-> IF requested > total /\ total > 0 THEN total ELSE requested]

\* handleDeckToggle adding the deck whether or not it is selected
Toggled_AlwaysAdded(prev, deckId) == Append(prev, deckId)

\* prev.includes(deckId) ? prev.filter(id => id !== deckId) : [...prev, deckId]
Toggled(prev, deckId) ==
    IF Includes(prev, deckId)
    THEN SelectSeq(prev, LAMBDA id : id # deckId)
    ELSE Append(prev, deckId)

\* handleDeckToggle(deckId), from the checkbox of a deck in decks
HandleDeckToggle(deckId) ==
    LET selected == Toggled(selectedDeckIds, deckId)
        effect == MixerEffect(selected, requestedCardCount)
    IN  /\ deckId \in DOMAIN allDecks
        /\ selectedDeckIds' = selected
        /\ requestedCardCount' = effect.requestedCardCount
        /\ maxAvailable' = effect.maxAvailable
        /\ validationError' = effect.validationError
        /\ op' = "handleDeckToggle"
        /\ result' = NoResult
        /\ calls' = <<"handleDeckToggle", "getTotalAvailableCards">>
        /\ UNCHANGED <<requestedCount, allCards, allDecks, cards, count, historyVars,
                       appVars, recentSessions, cardCount, tabVars,
                       reshuffles>>

\* setRequestedCardCount(requested) and the effect it triggers when the
\* value is a new one
RequestedCardCountSet(requested) ==
    IF requested = requestedCardCount
    THEN /\ calls' = <<>>
         /\ UNCHANGED <<requestedCardCount, maxAvailable, validationError>>
    ELSE LET effect == MixerEffect(selectedDeckIds, requested)
         IN  /\ requestedCardCount' = effect.requestedCardCount
             /\ maxAvailable' = effect.maxAvailable
             /\ validationError' = effect.validationError
             /\ calls' = <<"getTotalAvailableCards">>

\* handleCardCountChange(value), from the number input shown while a deck is
\* selected
HandleCardCountChange(value) ==
    LET parsed == ParseInt(value)
    IN  /\ Len(selectedDeckIds) > 0
        /\ IF parsed # NaN /\ parsed.value >= 0
           THEN RequestedCardCountSet(Min(parsed.value, maxAvailable))
           ELSE /\ calls' = <<>>
                /\ UNCHANGED <<requestedCardCount, maxAvailable, validationError>>
        /\ op' = "handleCardCountChange"
        /\ result' = parsed
        /\ UNCHANGED <<selectedDeckIds, requestedCount, allCards, allDecks, cards, count,
                       historyVars, appVars, recentSessions, cardCount, tabVars,
                       reshuffles>>

\* a quick selection button, enabled while its count is available
QuickSelect(quick) ==
    /\ Len(selectedDeckIds) > 0
    /\ quick <= maxAvailable
    /\ RequestedCardCountSet(Min(quick, maxAvailable))
    /\ op' = "quickSelect"
    /\ result' = NoResult
    /\ UNCHANGED <<selectedDeckIds, requestedCount, allCards, allDecks, cards, count,
                   historyVars, appVars, recentSessions, cardCount, tabVars,
                   reshuffles>>

\* handleLoadRecentSession taking the session's deck list as it was recorded
ValidDeckIds_Unfiltered(ids) == ids

\* session.selectedDeckIds.filter(deckId => decks.some(deck => deck.id === deckId))
ValidDeckIds(ids) == SelectSeq(ids, LAMBDA deckId : deckId \in DOMAIN allDecks)

\* handleLoadRecentSession(session), for a session of the list loaded at mount
HandleLoadRecentSession(session) ==
    LET validDeckIds == ValidDeckIds(session.selectedDeckIds)
        totalAvailable == getTotalAvailableCards(validDeckIds, allCards)
        effect == MixerEffect(validDeckIds, Min(session.cardCount, totalAvailable))
    IN  /\ IF Len(validDeckIds) = 0
           THEN /\ validationError' = "The decks from this session are no longer available"
                /\ calls' = <<"handleLoadRecentSession">>
                /\ UNCHANGED <<selectedDeckIds, requestedCardCount, maxAvailable>>
           ELSE /\ selectedDeckIds' = validDeckIds
                /\ requestedCardCount' = effect.requestedCardCount
                /\ maxAvailable' = effect.maxAvailable
                /\ validationError' = effect.validationError
                /\ calls' = <<"handleLoadRecentSession", "getTotalAvailableCards">>
        /\ op' = "handleLoadRecentSession"
        /\ result' = NoResult
        /\ called' = [argument |-> session]
        /\ UNCHANGED <<requestedCount, allCards, allDecks, cards, count, storage, now,
                       clockMonotone, before, recordedInRow, recordsDone, deletesDone,
                       clockMoves, appVars, recentSessions, cardCount, tabVars,
                       reshuffles>>

\* selectedDeckIds.length > 0 && requestedCardCount > 0 && requestedCardCount <= maxAvailable
isValidSelection ==
    Len(selectedDeckIds) > 0 /\ requestedCardCount > 0 /\ requestedCardCount <= maxAvailable

\* CardMixer's handleMixCards, from the 'Mix Cards' button; result is what
\* onMixCards is given
MixerHandleMixCards ==
    LET validation == validateCardMixingParams(selectedDeckIds, requestedCardCount, allCards)
    IN  /\ isValidSelection
        /\ IF ~validation.valid
           THEN /\ validationError' = validation.error
                /\ result' = NoResult
                /\ calls' = <<"handleMixCards">> \o
                            validateCardMixingParamsCalls(selectedDeckIds, requestedCardCount)
           ELSE /\ validationError' = ""
                /\ result' = [selectedDeckIds |-> selectedDeckIds,
                              cardCount |-> requestedCardCount]
                /\ calls' = <<"handleMixCards">> \o
                            validateCardMixingParamsCalls(selectedDeckIds, requestedCardCount)
                            \o <<"onMixCards">>
        /\ op' = "mixerHandleMixCards"
        /\ UNCHANGED <<inputVars, historyVars, appVars, requestedCardCount, maxAvailable,
                       recentSessions, cardCount, tabVars,
                       reshuffles>>

\* what the user types into the number input
TypedValues ==
    {<<>>, <<"0">>, <<"2">>, <<"4">>, <<"9">>, <<"1", "2">>, <<"-", "1">>,
     <<"1", ".", "5">>, <<"x">>}

\* the history the mixer finds: two sessions, the second one on deck B alone
MixerSessions ==
    <<[id |-> SessionId(0, 0), selectedDeckIds |-> <<"A", "B">>, cardCount |-> 4,
       timestamp |-> 0],
      [id |-> SessionId(0, 1), selectedDeckIds |-> <<"B">>, cardCount |-> 7,
       timestamp |-> 0]>>

\* the mixer after its mount: the sessions read, the effect run once
InitMixer ==
    /\ \E sizes \in CardMaps :
          /\ allCards = AllCardsOf(sizes)
          /\ allDecks = [d \in DOMAIN sizes |-> DeckRecord(d, sizes[d])]
    /\ storage = StoredItem([decks |-> allDecks, cards |-> allCards,
                             mixingSessions |-> MixerSessions,
                             version |-> STORAGE_VERSION])
    /\ \E fault \in {"none", "unavailable"} :
          recentSessions = getRecentMixingSessions(storage, fault).returned
    /\ selectedDeckIds = <<>>
    /\ requestedCardCount = 5
    /\ maxAvailable = 0
    /\ validationError = ""
    /\ currentView = "card-mixer"
    /\ mixingSession = Null
    /\ currentSession = Null
    /\ errors = <<>>
    /\ reshuffles = NoReshuffles
    /\ cardCount = 0
    /\ requestedCount = 0
    /\ cards = <<>>
    /\ count = 0
    /\ op = "none"
    /\ result = NoResult
    /\ calls = <<>>
    /\ now = 0
    /\ clockMonotone = TRUE
    /\ before = <<>>
    /\ recordedInRow = <<>>
    /\ recordsDone = 0
    /\ deletesDone = 0
    /\ clockMoves = 0
    /\ called = NoCall
    /\ TabsIdle

\* the button of a recent session is disabled when none of its decks is in decks
SessionButtonEnabled(session) ==
    \E k \in 1..Len(session.selectedDeckIds) :
        session.selectedDeckIds[k] \in DOMAIN allDecks

NextMixer ==
    \/ \E deckId \in DeckIds : HandleDeckToggle(deckId)
    \/ \E value \in TypedValues : HandleCardCountChange(value)
    \/ \E quick \in QuickCounts : QuickSelect(quick)
    \/ \E k \in 1..Len(recentSessions) :
          /\ SessionButtonEnabled(recentSessions[k])
          /\ HandleLoadRecentSession(recentSessions[k])
    \/ MixerHandleMixCards

SpecMixer == InitMixer /\ [][NextMixer]_vars

\* The handlers called as functions: handleLoadRecentSession on every session
\* of the list, also on one whose button the render has disabled.
NextMixerHandlers ==
    \/ \E deckId \in DeckIds : HandleDeckToggle(deckId)
    \/ \E value \in TypedValues : HandleCardCountChange(value)
    \/ \E quick \in QuickCounts : QuickSelect(quick)
    \/ \E k \in 1..Len(recentSessions) : HandleLoadRecentSession(recentSessions[k])
    \/ MixerHandleMixCards

SpecMixerHandlers == InitMixer /\ [][NextMixerHandlers]_vars


----------------------------------------------------------------------------
(* The document as a whole: the readers getAllDecks, getCards,              *)
(* getMixingSessions and checkStorageHealth, and the writers of decks,      *)
(* cards and sessions side by side.                                         *)

MaxDocRecords == 2
MaxDocClockMoves == 1

\* getAllDecks(): Object.values(data.decks), or [] from its catch.  The decks
\* returned are given as a set: the order of the keys plays no part here.
getAllDecks(item, fault) ==
    LET got == getStorageData(item, fault) IN
    IF "thrown" \in DOMAIN got
    THEN [returned |-> {}, storage |-> got.storage, logged |-> got.thrown]
    ELSE [returned |-> {got.data.decks[k] : k \in DOMAIN got.data.decks},
          storage |-> got.storage]

\* checkStorageHealth(): the first test is isStorageAvailable(); a quota fault
\* shows only if getStorageData has to write
checkStorageHealth(item, fault) ==
    IF fault = "unavailable"
    THEN [returned |-> [available |-> FALSE,
                        warning |-> <<"localStorage is not available.",
                                      "Your data will not be saved between sessions.">>],
          storage |-> item]
    ELSE LET got == getStorageData(item, fault) IN
         IF "thrown" \in DOMAIN got
         THEN [returned |-> [available |-> TRUE,
                             warning |-> <<"Storage warning:", got.thrown>>],
               storage |-> got.storage]
         ELSE [returned |-> [available |-> TRUE], storage |-> got.storage]

GetAllDecks(fault) ==
    LET read == getAllDecks(storage, fault)
    IN  /\ storage' = read.storage
        /\ op' = "getAllDecks"
        /\ result' = [returned |-> read.returned]
        /\ before' = PersistedSessions(storage)
        /\ called' = [fault |-> fault]
        /\ calls' = <<"getAllDecks">>
        /\ UNCHANGED <<inputVars, now, clockMonotone, recordedInRow,
                       recordsDone, deletesDone, clockMoves>>
        /\ UNCHANGED <<uiVars, tabVars>>

GetCards(deckId, fault) ==
    LET read == getCards(storage, deckId, fault)
    IN  /\ storage' = read.storage
        /\ op' = "getCards"
        /\ result' = [returned |-> read.returned]
        /\ before' = PersistedSessions(storage)
        /\ called' = [argument |-> deckId, fault |-> fault]
        /\ calls' = <<"getCards">>
        /\ UNCHANGED <<inputVars, now, clockMonotone, recordedInRow,
                       recordsDone, deletesDone, clockMoves>>
        /\ UNCHANGED <<uiVars, tabVars>>

CheckStorageHealth(fault) ==
    LET read == checkStorageHealth(storage, fault)
    IN  /\ storage' = read.storage
        /\ op' = "checkStorageHealth"
        /\ result' = [returned |-> read.returned]
        /\ before' = PersistedSessions(storage)
        /\ called' = [fault |-> fault]
        /\ calls' = <<"checkStorageHealth">>
        /\ UNCHANGED <<inputVars, now, clockMonotone, recordedInRow,
                       recordsDone, deletesDone, clockMoves>>
        /\ UNCHANGED <<uiVars, tabVars>>

\* The four readers after any writes of decks, cards and sessions, from each
\* kind of initial item.
NextReaders ==
    \/ \E fault \in Faults : GetAllDecks(fault)
    \/ \E deckId \in DeckIds, fault \in Faults : GetCards(deckId, fault)
    \/ \E fault \in Faults : GetMixingSessions(fault)
    \/ \E fault \in Faults : CheckStorageHealth(fault)
    \/ \E deck \in DeckInputs, fault \in Faults : SaveDeck(deck, fault)
    \/ \E deckId \in DeckIds, n \in 0..MaxStoredCards, fault \in Faults :
          SaveCards(deckId, CardList(deckId, n), fault)
    \/ /\ recordsDone < MaxDocRecords
       /\ \E session \in SessionInputs, fault \in Faults :
             SaveMixingSession(session, recordsDone, fault)

SpecReaders == InitHistory /\ [][NextReaders]_vars

\* the Deck and the Card values of handleCreateDeck, createdAt: new Date()
NewDeck(d, n) ==
    [id |-> d, name |-> "Deck", color |-> "#3B82F6", cardCount |-> n,
     createdAt |-> now]

NewCard(d, k) == [id |-> <<d, k>>, deckId |-> d, createdAt |-> now]

NewCards(d, from, m) == [k \in 1..m |-> NewCard(d, from + k - 1)]

\* the deck that is created, filled and deleted; the sessions saved name it
\* and deck B, which is never stored
DocumentDeckIds == {"A"}

\* The writers of decks, cards and sessions in any order, from each kind of
\* initial item, with the clock moving in between; up to MaxDocRecords
\* sessions saved, a deck of up to MaxStoredCards cards.
NextDocument ==
    \/ \E d \in DocumentDeckIds, n \in 0..MaxStoredCards, fault \in Faults :
          SaveDeck(NewDeck(d, n), fault)
    \/ \E deckId \in DocumentDeckIds, fault \in Faults : DeleteDeck(deckId, fault)
    \/ \E deckId \in DocumentDeckIds, n \in 0..MaxStoredCards, fault \in Faults :
          SaveCards(deckId, NewCards(deckId, 0, n), fault)
    \/ \E deckId \in DocumentDeckIds, m \in 1..MaxStoredCards, fault \in Faults :
          /\ CardsHeld(deckId) + m <= MaxStoredCards
          /\ AddCards(deckId, NewCards(deckId, CardsHeld(deckId), m), fault)
    \/ /\ recordsDone < MaxDocRecords
       /\ \E session \in SessionInputs, fault \in Faults :
             SaveMixingSession(session, recordsDone, fault)
    \/ /\ deletesDone < MaxDeletes
       /\ \E fault \in Faults :
             \E sessionId \in DeleteTargets(fault) :
                DeleteMixingSession(sessionId, fault)
    \/ \E fault \in Faults : CleanupOldMixingSessions(fault)
    \/ /\ clockMoves < MaxDocClockMoves
       /\ ClockMoves(ThirtyDays + 1)

SpecDocument == InitHistory /\ [][NextDocument]_vars
----------------------------------------------------------------------------
(* Two tabs on one localStorage.  Inside a tab a store call runs to its end *)
(* (JavaScript is single threaded), but nothing orders the getItem and the  *)
(* setItem of one tab against those of another: a call is the step that     *)
(* reads the document (getStorageData) followed by the step that writes the *)
(* changed document (saveStorageData).                                      *)

MaxTabOps == 2

\* saveMixingSession's change of the document it has read
SessionSaved(data, newSession) ==
    [data EXCEPT !.mixingSessions = WithNewSession(newSession, data.mixingSessions)]

\* the store calls a tab makes: saveMixingSession(session), whose random
\* suffix no other call draws, or saveDeck(deck)
TabOperations(t) ==
    {[name |-> "saveMixingSession",
      session |-> [id |-> SessionId(now, <<t, tabs[t].begun>>),
                   selectedDeckIds |-> session.selectedDeckIds,
                   cardCount |-> session.cardCount,
                   timestamp |-> now]] : session \in SessionInputs}
    \cup {[name |-> "saveDeck", deck |-> DeckRecord(d, 0)] : d \in DeckIds}

\* the document an operation writes, from the one it read
Changed(data, operation) ==
    IF operation.name = "saveMixingSession" THEN SessionSaved(data, operation.session)
    ELSE DeckSaved(data, operation.deck)

\* tab t enters a store call: const data = this.getStorageData()
TabReads(t, operation, fault) ==
    LET got == getStorageData(storage, fault)
    IN  /\ tabs[t].pc = "idle"
        /\ tabs[t].begun < MaxTabOps
        /\ storage' = got.storage
        /\ tabs' = [tabs EXCEPT ![t] =
                       IF "thrown" \in DOMAIN got THEN IdleTab(tabs[t].begun + 1)
                       ELSE [pc |-> "read", begun |-> tabs[t].begun + 1,
                             operation |-> operation, data |-> got.data]]
        /\ overlapped' = (overlapped \/ \E u \in TabIds \ {t} : tabs[u].pc = "read")
        /\ op' = operation.name
        /\ result' = IF "thrown" \in DOMAIN got THEN [thrown |-> got.thrown] ELSE NoResult
        /\ called' = [tab |-> t, fault |-> fault]
        /\ UNCHANGED <<inputVars, calls, now, clockMonotone, before, recordedInRow,
                       recordsDone, deletesDone, clockMoves, completed, uiVars>>

\* tab t leaves its store call: this.saveStorageData(data), data being the
\* document it read, changed
TabWrites(t, fault) ==
    LET operation == tabs[t].operation
        update == saveStorageData(storage, Changed(tabs[t].data, operation), fault)
    IN  /\ tabs[t].pc = "read"
        /\ storage' = update.storage
        /\ tabs' = [tabs EXCEPT ![t] = IdleTab(tabs[t].begun)]
        /\ completed' = IF "thrown" \in DOMAIN update THEN completed
                        ELSE completed \cup {operation}
        /\ op' = operation.name
        /\ result' = Outcome(update, "void")
        /\ called' = [tab |-> t, fault |-> fault]
        /\ UNCHANGED <<inputVars, calls, now, clockMonotone, before, recordedInRow,
                       recordsDone, deletesDone, clockMoves, overlapped, uiVars>>

NextTabs ==
    \/ \E t \in TabIds, fault \in Faults :
          \E operation \in TabOperations(t) : TabReads(t, operation, fault)
    \/ \E t \in TabIds, fault \in Faults : TabWrites(t, fault)

SpecTabs == InitHistory /\ [][NextTabs]_vars

----------------------------------------------------------------------------
(* FlashcardAppContent as a whole (src/unnamed/part_002): its four views,   *)
(* with DeckManager's deck creation and deletion under the deck list.  The  *)
(* application runs on React 18 (src/unnamed/part_001, line 216), which     *)
(* applies the state updates of one handler together, so a handler and the  *)
(* render after it are one step.                                            *)

MaxNavErrors == 1
MaxNavRecords == 1

\* getDeck(deckId): data.decks[deckId] || null, and null from its catch
getDeck(item, deckId, fault) ==
    LET got == getStorageData(item, fault) IN
    IF "thrown" \in DOMAIN got
    THEN [returned |-> Null, storage |-> got.storage, logged |-> got.thrown]
    ELSE [returned |-> IF deckId \in DOMAIN got.data.decks
                       THEN got.data.decks[deckId] ELSE Null,
          storage |-> got.storage]

\* loadDecksAndCards(): the decks of getAllDecks() and, for each of them,
\* getCards(deck.id); decks stands for the map handleMixCards makes of the list
loadDecksAndCards(item, fault) ==
    LET allDecksRead == getAllDecks(item, fault)
        ids == {deck.id : deck \in allDecksRead.returned}
    IN  [decks |-> [id \in ids |->
                       CHOOSE deck \in allDecksRead.returned : deck.id = id],
         cards |-> [id \in ids |->
                       getCards(allDecksRead.storage, id, fault).returned],
         storage |-> allDecksRead.storage]

\* handleSelectDeck(deckId), from a deck of the deck list
HandleSelectDeck(deckId, fault) ==
    LET deck == getDeck(storage, deckId, fault)
        deckCards == getCards(deck.storage, deckId, fault)
    IN  /\ currentView = "deck-list"
        /\ storage' = IF deck.returned = Null THEN deck.storage ELSE deckCards.storage
        /\ IF deck.returned = Null
           THEN /\ errors' = Append(errors,
                        ErrorEntry("error", "Deck Not Found",
                            <<"The selected deck could not be found.",
                              "It may have been deleted.">>))
                /\ calls' = <<"handleSelectDeck", "getDeck", "addError">>
                /\ UNCHANGED <<currentSession, currentView>>
           ELSE IF Len(deckCards.returned) = 0
           THEN /\ errors' = Append(errors,
                        ErrorEntry("warning", "Empty Deck",
                            <<"This deck has no cards to study.",
                              "Add some cards first.">>))
                /\ calls' = <<"handleSelectDeck", "getDeck", "getCards", "addError">>
                /\ UNCHANGED <<currentSession, currentView>>
           ELSE /\ currentSession' = [deck |-> deck.returned, cards |-> deckCards.returned]
                /\ currentView' = "study"
                /\ calls' = <<"handleSelectDeck", "getDeck", "getCards">>
                /\ UNCHANGED errors
        /\ op' = "handleSelectDeck"
        /\ result' = NoResult
        /\ called' = [argument |-> deckId, fault |-> fault]
        /\ UNCHANGED <<inputVars, now, clockMonotone, before, recordedInRow, recordsDone,
                       deletesDone, clockMoves, mixingSession, mixerVars, cardCount,
                       tabVars,
                       reshuffles>>

\* handleExitStudy dropping the session and staying in the study view
HandleExitStudy_KeepsView ==
    /\ currentView = "study"
    /\ currentSession' = Null
    /\ currentView' = currentView
    /\ op' = "handleExitStudy"
    /\ result' = NoResult
    /\ calls' = <<"handleExitStudy">>
    /\ UNCHANGED <<inputVars, historyVars, mixingSession, errors, mixerVars, cardCount,
                   tabVars,
                   reshuffles>>

\* handleExitStudy(), from the study view's exit buttons and its Escape key
HandleExitStudy ==
    /\ currentView = "study"
    /\ currentSession' = Null
    /\ currentView' = "deck-list"
    /\ op' = "handleExitStudy"
    /\ result' = NoResult
    /\ calls' = <<"handleExitStudy">>
    /\ UNCHANGED <<inputVars, historyVars, mixingSession, errors, mixerVars, cardCount,
                   tabVars,
                   reshuffles>>

\* handleBackToDeckList(), bound to the mixer's Cancel button
HandleBackToDeckList(fault) ==
    LET loaded == loadDecksAndCards(storage, fault)
    IN  /\ currentView = "card-mixer"
        /\ currentView' = "deck-list"
        /\ currentSession' = Null
        /\ mixingSession' = Null
        /\ allDecks' = loaded.decks
        /\ allCards' = loaded.cards
        /\ storage' = loaded.storage
        /\ op' = "handleBackToDeckList"
        /\ result' = NoResult
        /\ calls' = <<"handleBackToDeckList", "loadDecksAndCards">>
        /\ called' = [fault |-> fault]
        /\ UNCHANGED <<selectedDeckIds, requestedCount, cards, count, now, clockMonotone,
                       before, recordedInRow, recordsDone, deletesDone, clockMoves,
                       errors, mixerVars, cardCount, tabVars,
                       reshuffles>>

\* handleReshuffle(), bound to the mixed display's Reshuffle button:
\* handleMixCards with the selection and the count of the session on display
\* (without a session it returns at once and nothing changes)
HandleReshuffle(draws, fault) ==
    /\ currentView = "mixed-display"
    /\ mixingSession # Null
    /\ HandleMixCards(mixingSession.selectedDeckIds, mixingSession.cardCount,
                      draws, fault)

\* confirmDeckDeletion(), after the confirmation dialog of the deck list; the
\* 200 ms it waits before deleteDeck pass with the deck list still shown
ConfirmDeckDeletion(deckId, fault) ==
    LET update == deleteDeck(storage, deckId, fault)
    IN  /\ currentView = "deck-list"
        /\ storage' = update.storage
        /\ errors' = IF "thrown" \in DOMAIN update
                     THEN Append(errors,
                             ErrorEntry("error", "Failed to Delete Deck", update.thrown))
                     ELSE errors
        /\ op' = "confirmDeckDeletion"
        /\ result' = IF "thrown" \in DOMAIN update THEN [caught |-> update.thrown]
                     ELSE [returned |-> "void"]
        /\ calls' = IF "thrown" \in DOMAIN update
                    THEN <<"confirmDeckDeletion", "deleteDeck", "addError">>
                    ELSE <<"confirmDeckDeletion", "deleteDeck", "loadDecks", "showSuccess">>
        /\ called' = [argument |-> deckId, fault |-> fault]
        /\ before' = PersistedSessions(storage)
        /\ UNCHANGED <<inputVars, now, clockMonotone, recordedInRow, recordsDone,
                       deletesDone, clockMoves, currentView, mixingSession,
                       currentSession, mixerVars, cardCount, tabVars,
                       reshuffles>>

\* a read meets localStorage in working order or unavailable (a quota fault
\* shows on writes only, and a stored document is never rewritten by a read)
ReadFaults == {"none", "unavailable"}

\* the application after its mount, on a document of up to two decks: the
\* health check passed, the decks and cards loaded, no session old enough to
\* be cleaned up
InitNavigation ==
    /\ \E D \in SUBSET DeckIds : \E sizes \in [D -> 0..MaxAppDeckCards] :
          /\ allCards = AllCardsOf(sizes)
          /\ allDecks = [d \in D |-> DeckRecord(d, sizes[d])]
          /\ storage = StoredItem([decks |-> allDecks, cards |-> allCards,
                                   mixingSessions |-> <<>>,
                                   version |-> STORAGE_VERSION])
    /\ currentView = "deck-list"
    /\ mixingSession = Null
    /\ currentSession = Null
    /\ errors = <<>>
    /\ reshuffles = NoReshuffles
    /\ requestedCardCount = 5
    /\ maxAvailable = 0
    /\ validationError = ""
    /\ recentSessions = <<>>
    /\ cardCount = 0
    /\ selectedDeckIds = <<>>
    /\ requestedCount = 0
    /\ cards = <<>>
    /\ count = 0
    /\ op = "none"
    /\ result = NoResult
    /\ calls = <<>>
    /\ now = 0
    /\ clockMonotone = TRUE
    /\ before = <<>>
    /\ recordedInRow = <<>>
    /\ recordsDone = 0
    /\ deletesDone = 0
    /\ clockMoves = 0
    /\ called = NoCall
    /\ TabsIdle

\* what CardMixer hands to onMixCards: decks of its list, in the order of
\* their selection, and a count that has passed its validation
MixerSubmits(ids, n) ==
    /\ \A k \in 1..Len(ids) : ids[k] \in DOMAIN allDecks
    /\ \A i, j \in 1..Len(ids) : i # j => ids[i] # ids[j]
    /\ validateCardMixingParams(ids, n, allCards).valid

\* the handlers of the four views, each from the view that offers it; at most
\* MaxNavErrors errors are raised and MaxNavRecords sessions recorded
NextNavigation ==
    \/ /\ Len(errors) < MaxNavErrors
       /\ \E deckId \in DOMAIN PersistedDecks(storage), fault \in ReadFaults :
             HandleSelectDeck(deckId, fault)
    \/ HandleExitStudy
    \/ /\ currentView = "deck-list"
       /\ Len(errors) < MaxNavErrors
       /\ \E deckId \in DeckIds \ DOMAIN PersistedDecks(storage) :
             \E n \in 1..MaxStoredCards, faultOnDeck \in Faults, faultOnCards \in Faults :
                HandleCreateDeck(deckId, n, faultOnDeck, faultOnCards)
    \/ /\ Len(errors) < MaxNavErrors
       /\ \E deckId \in DOMAIN PersistedDecks(storage), fault \in Faults :
             ConfirmDeckDeletion(deckId, fault)
    \/ HandleStartCardMixing
    \/ /\ currentView = "card-mixer"
       /\ recordsDone < MaxNavRecords
       /\ \E ids \in SeqsUpTo(DeckIds, MaxSelected), n \in 1..(MaxAppCount + 1) :
             /\ MixerSubmits(ids, n)
             /\ \E draws \in MixDraws(ids, n), fault \in Faults :
                   HandleMixCards(ids, n, draws, fault)
    \/ /\ recordsDone < MaxNavRecords
       /\ currentView = "mixed-display"
       /\ mixingSession # Null
       /\ \E draws \in MixDraws(mixingSession.selectedDeckIds, mixingSession.cardCount),
             fault \in Faults :
                HandleReshuffle(draws, fault)
    \/ HandleBackToCardMixer
    \/ \E fault \in ReadFaults : HandleBackToDeckList(fault)

SpecNavigation == InitNavigation /\ [][NextNavigation]_vars

----------------------------------------------------------------------------
(* CardMixer inside FlashcardAppContent: what it submits is mixed and       *)
(* recorded by the application's handleMixCards, and when the mixed display *)
(* is left the mixer mounts anew and reads the recorded sessions back.      *)

MaxLoopRecords == 2
MaxLoopDeckCards == 1

\* the 'Mix Cards' button of the mixer, enabled on a valid selection:
\* validation passes on it and onMixCards is the application's handleMixCards
MixerSubmitsMix(draws, fault) ==
    /\ currentView = "card-mixer"
    /\ isValidSelection
    /\ validateCardMixingParams(selectedDeckIds, requestedCardCount, allCards).valid
    /\ HandleMixCards(selectedDeckIds, requestedCardCount, draws, fault)

\* handleBackToCardMixer() and the mount of the CardMixer it brings back: the
\* state of useState, the recent sessions read, the effect run once
HandleBackToCardMixerMounting(fault) ==
    LET read == getRecentMixingSessions(storage, fault)
    IN  /\ currentView = "mixed-display"
        /\ currentView' = "card-mixer"
        /\ mixingSession' = Null
        /\ selectedDeckIds' = <<>>
        /\ requestedCardCount' = 5
        /\ maxAvailable' = getTotalAvailableCards(<<>>, allCards)
        /\ validationError' = ""
        /\ recentSessions' = read.returned
        /\ storage' = read.storage
        /\ op' = "handleBackToCardMixer"
        /\ result' = NoResult
        /\ calls' = <<"handleBackToCardMixer", "getRecentMixingSessions",
                      "getTotalAvailableCards">>
        /\ called' = [fault |-> fault]
        /\ UNCHANGED <<requestedCount, allCards, allDecks, cards, count, now,
                       clockMonotone, before, recordedInRow, recordsDone, deletesDone,
                       clockMoves, currentSession, errors, cardCount, tabVars,
                       reshuffles>>

\* the mixer mounted for the first time, on a document whose history is empty
InitMixerLoop ==
    /\ \E D \in SUBSET DeckIds : \E sizes \in [D -> 0..MaxLoopDeckCards] :
          /\ allCards = AllCardsOf(sizes)
          /\ allDecks = [d \in D |-> DeckRecord(d, sizes[d])]
          /\ storage = StoredItem([decks |-> allDecks, cards |-> allCards,
                                   mixingSessions |-> <<>>,
                                   version |-> STORAGE_VERSION])
    /\ recentSessions = <<>>
    /\ selectedDeckIds = <<>>
    /\ requestedCardCount = 5
    /\ maxAvailable = 0
    /\ validationError = ""
    /\ currentView = "card-mixer"
    /\ mixingSession = Null
    /\ currentSession = Null
    /\ errors = <<>>
    /\ reshuffles = NoReshuffles
    /\ cardCount = 0
    /\ requestedCount = 0
    /\ cards = <<>>
    /\ count = 0
    /\ op = "none"
    /\ result = NoResult
    /\ calls = <<>>
    /\ now = 0
    /\ clockMonotone = TRUE
    /\ before = <<>>
    /\ recordedInRow = <<>>
    /\ recordsDone = 0
    /\ deletesDone = 0
    /\ clockMoves = 0
    /\ called = NoCall
    /\ TabsIdle

\* the mixer's handlers while it is shown, the mixed display's two buttons
\* while that is shown; up to MaxLoopRecords sessions are recorded.  The quick
\* selection buttons are disabled throughout: decks of MaxLoopDeckCards cards
\* make none of their counts available.
NextMixerLoop ==
    \/ /\ currentView = "card-mixer"
       /\ \E deckId \in DeckIds : HandleDeckToggle(deckId)
    \/ /\ currentView = "card-mixer"
       /\ \E value \in TypedValues : HandleCardCountChange(value)
    \/ /\ currentView = "card-mixer"
       /\ \E k \in 1..Len(recentSessions) :
             /\ SessionButtonEnabled(recentSessions[k])
             /\ HandleLoadRecentSession(recentSessions[k])
    \/ /\ recordsDone < MaxLoopRecords
       /\ \E draws \in MixDraws(selectedDeckIds, requestedCardCount), fault \in Faults :
             MixerSubmitsMix(draws, fault)
    \/ /\ recordsDone < MaxLoopRecords
       /\ currentView = "mixed-display"
       /\ mixingSession # Null
       /\ \E draws \in MixDraws(mixingSession.selectedDeckIds, mixingSession.cardCount),
             fault \in Faults :
                HandleReshuffle(draws, fault)
    \/ \E fault \in ReadFaults : HandleBackToCardMixerMounting(fault)

SpecMixerLoop == InitMixerLoop /\ [][NextMixerLoop]_vars

----------------------------------------------------------------------------
(* Reshuffling: the mixed display's Reshuffle button pressed again and      *)
(* again, each press counted, on an application with decks A and B of one   *)
(* card each.                                                               *)

MaxReshuffles == 10
MaxMixerRecords == 2

\* what the mixer submits here: both decks with 2 cards, or deck B with 1
ReshuffleConfigurations ==
    {[selectedDeckIds |-> <<"A", "B">>, cardCount |-> 2],
     [selectedDeckIds |-> <<"B">>, cardCount |-> 1]}

\* handleMixCards as CardMixer's onMixCards: a row of reshuffles starts anew
HandleMixCardsFromMixer(ids, n, draws, fault) ==
    /\ currentView = "card-mixer"
    /\ MixCardsHandled(ids, n, draws, fault)
    /\ reshuffles' = NoReshuffles

\* handleReshuffle() counted: one more reshuffle in the row, and one more
\* recorded if saveMixingSession returned
HandleReshuffleCounted(draws, fault) ==
    /\ currentView = "mixed-display"
    /\ mixingSession # Null
    /\ MixCardsHandled(mixingSession.selectedDeckIds, mixingSession.cardCount,
                       draws, fault)
    /\ reshuffles' = [inRow |-> reshuffles.inRow + 1,
                      recorded |-> IF recordsDone' > recordsDone
                                   THEN reshuffles.recorded + 1
                                   ELSE reshuffles.recorded]

InitReshuffle ==
    /\ allCards = AllCardsOf([d \in DeckIds |-> 1])
    /\ allDecks = [d \in DeckIds |-> DeckRecord(d, 1)]
    /\ storage = StoredItem([decks |-> allDecks, cards |-> allCards,
                             mixingSessions |-> <<>>,
                             version |-> STORAGE_VERSION])
    /\ currentView = "card-mixer"
    /\ mixingSession = Null
    /\ currentSession = Null
    /\ errors = <<>>
    /\ reshuffles = NoReshuffles
    /\ requestedCardCount = 5
    /\ maxAvailable = 0
    /\ validationError = ""
    /\ recentSessions = <<>>
    /\ cardCount = 0
    /\ selectedDeckIds = <<>>
    /\ requestedCount = 0
    /\ cards = <<>>
    /\ count = 0
    /\ op = "none"
    /\ result = NoResult
    /\ calls = <<>>
    /\ now = 0
    /\ clockMonotone = TRUE
    /\ before = <<>>
    /\ recordedInRow = <<>>
    /\ recordsDone = 0
    /\ deletesDone = 0
    /\ clockMoves = 0
    /\ called = NoCall
    /\ TabsIdle

\* the mixer is used until MaxMixerRecords sessions are recorded; a mix on
\* display is reshuffled up to MaxReshuffles times
NextReshuffle ==
    \/ /\ recordsDone < MaxMixerRecords
       /\ \E config \in ReshuffleConfigurations :
             \E draws \in MixDraws(config.selectedDeckIds, config.cardCount),
                fault \in Faults :
                   HandleMixCardsFromMixer(config.selectedDeckIds, config.cardCount,
                                           draws, fault)
    \/ /\ reshuffles.inRow < MaxReshuffles
       /\ currentView = "mixed-display"
       /\ mixingSession # Null
       /\ \E draws \in MixDraws(mixingSession.selectedDeckIds, mixingSession.cardCount),
             fault \in Faults :
                HandleReshuffleCounted(draws, fault)
    \/ HandleBackToCardMixer

SpecReshuffle == InitReshuffle /\ [][NextReshuffle]_vars

----------------------------------------------------------------------------
(* Vocabulary of the properties *)

Occurrences(seq, x) == Cardinality({k \in 1..Len(seq) : seq[k] = x})

Elements(seq) == {seq[k] : k \in 1..Len(seq)}

\* every element of sub is taken from a position of seq of its own
FromDistinctPositions(sub, seq) ==
    \A x \in Elements(sub) : Occurrences(sub, x) <= Occurrences(seq, x)

IsPermutationOf(a, b) ==
    /\ Len(a) = Len(b)
    /\ \A x \in Elements(a) \cup Elements(b) : Occurrences(a, x) = Occurrences(b, x)

NoRepeats(seq) == \A i, j \in 1..Len(seq) : i # j => seq[i] # seq[j]

\* the Card inside a MixedCard
CardPart(m) == [id |-> m.id, deckId |-> m.deckId]

CardParts(ms) == [k \in 1..Len(ms) |-> CardPart(ms[k])]

Pool == combineCardsFromDecks(selectedDeckIds, allCards)

Validation == validateCardMixingParams(selectedDeckIds, requestedCount, allCards)

MixSucceeded == op = "mixCards" /\ result.success

MixFailed == op = "mixCards" /\ ~result.success

----------------------------------------------------------------------------
(* C1 *)

History == PersistedSessions(storage)

Reverse(seq) == [k \in 1..Len(seq) |-> seq[Len(seq) + 1 - k]]

LastOf(seq, n) == SubSeq(seq, Len(seq) - n + 1, Len(seq))

MostRecentFirst(sessions) ==
    \A i, j \in 1..Len(sessions) :
        i < j => sessions[i].timestamp >= sessions[j].timestamp

\* C1: starting from an empty history, after any sequence of
\* saveMixingSession, deleteMixingSession and cleanupOldMixingSessions calls
\* the persisted list holds at most 10 sessions, newest first while the clock
\* has not been set back, and after 11 (or more) saves in a row it holds
\* exactly the 10 saved last, the first-saved one dropped.
C1_HistoryBounded ==
    /\ Len(History) <= 10
    /\ clockMonotone => MostRecentFirst(History)
    /\ Len(recordedInRow) >= 11 =>
          /\ History = Reverse(LastOf(recordedInRow, 10))
          /\ recordedInRow[1].id \notin SessionIds(History)

C1_Witness ==
    /\ op = "saveMixingSession"
    /\ Returned
    /\ Len(recordedInRow) = 11
    /\ Len(History) = 10
    /\ History[1] = result.returned
    /\ History[10] = recordedInRow[2]
    /\ History[1].timestamp > History[10].timestamp

----------------------------------------------------------------------------
(* C2 *)

RECURSIVE IsSubsequence(_, _)
IsSubsequence(sub, seq) ==
    IF sub = <<>> THEN TRUE
    ELSE IF seq = <<>> THEN FALSE
    ELSE IF Head(sub) = Head(seq) THEN IsSubsequence(Tail(sub), Tail(seq))
    ELSE IsSubsequence(sub, Tail(seq))

OlderThan30Days(session) == now - session.timestamp > 30

YoungerThan30Days(session) == now - session.timestamp < 30

CleanupReturned == op = "cleanupOldMixingSessions" /\ Returned

\* C2: after cleanupOldMixingSessions has run at time now, no session older
\* than 30 days remains, every session younger than 30 days is still there,
\* and the survivors keep their relative order.
C2_CleanupByAge ==
    CleanupReturned =>
        /\ \A k \in 1..Len(History) : ~OlderThan30Days(History[k])
        /\ IsSubsequence(SelectSeq(before, YoungerThan30Days), History)
        /\ IsSubsequence(History, before)

C2_Witness ==
    /\ CleanupReturned
    /\ \E k \in 1..Len(before) : OlderThan30Days(before[k])
    /\ \E k \in 1..Len(History) : now - History[k].timestamp = 29
    /\ Len(History) >= 2

----------------------------------------------------------------------------
(* C3 *)

\* C3 (as claimed): a successful mixCards result has exactly requestedCount
\* cards, each a card of the pool of the selected decks, and no card appears
\* twice in it, for every selection of deck identifiers.
C3_NoCardTwice ==
    MixSucceeded =>
        /\ Len(result.mixedCards) = requestedCount
        /\ Elements(CardParts(result.mixedCards)) \subseteq Elements(Pool)
        /\ NoRepeats(CardParts(result.mixedCards))

\* C3 (amended): a successful mixCards result has exactly requestedCount
\* cards, each taken from a pool position of its own, so a card appears in the
\* result at most as often as in the pool; when no deck identifier is selected
\* twice no card appears twice.
C3_DrawnFromDistinctPoolPositions ==
    MixSucceeded =>
        /\ Len(result.mixedCards) = requestedCount
        /\ Elements(CardParts(result.mixedCards)) \subseteq Elements(Pool)
        /\ FromDistinctPositions(CardParts(result.mixedCards), Pool)
        /\ NoRepeats(selectedDeckIds) => NoRepeats(CardParts(result.mixedCards))

C3_Witness ==
    /\ MixSucceeded
    /\ selectedDeckIds = <<"A", "B">>
    /\ "A" \in DOMAIN allCards /\ Len(allCards["A"]) = 3
    /\ "B" \in DOMAIN allCards /\ Len(allCards["B"]) = 2
    /\ requestedCount = 4
    /\ Len(result.mixedCards) = 4
    /\ \E k \in 1..4 : result.mixedCards[k].deckId = "B"

----------------------------------------------------------------------------
(* C4 *)

\* C4: validateCardMixingParams reports the first failing check in the order
\* empty selection, count <= 0, no cards available, count above the total;
\* maxAvailable (the total) comes with the last of these only.
C4_FirstFailureWins ==
    op = "validateCardMixingParams" =>
        LET total == Len(Pool) IN
        /\ Len(selectedDeckIds) = 0 =>
              result = [valid |-> FALSE, error |-> ErrNoDecks]
        /\ Len(selectedDeckIds) > 0 /\ requestedCount <= 0 =>
              result = [valid |-> FALSE, error |-> ErrInvalidCount]
        /\ Len(selectedDeckIds) > 0 /\ requestedCount > 0 /\ total = 0 =>
              result = [valid |-> FALSE, error |-> ErrEmptyDecks]
        /\ Len(selectedDeckIds) > 0 /\ requestedCount > 0 /\ total > 0
              /\ requestedCount > total =>
              /\ ~result.valid
              /\ result.error = ErrInsufficient(requestedCount, total)
              /\ result.maxAvailable = total
        /\ Len(selectedDeckIds) > 0 /\ requestedCount > 0 /\ total > 0
              /\ requestedCount <= total =>
              result = [valid |-> TRUE]
        /\ "maxAvailable" \in DOMAIN result <=>
              (~result.valid /\ result.error = ErrInsufficient(requestedCount, total))

C4_Witness ==
    /\ op = "validateCardMixingParams"
    /\ Len(selectedDeckIds) > 0
    /\ requestedCount <= 0
    /\ Len(Pool) = 0
    /\ result.error = ErrInvalidCount

----------------------------------------------------------------------------
(* C5 *)

\* C5 (as claimed): for every integer count <= cards.length selectRandomCards
\* returns exactly count elements from distinct positions, and for every
\* count >= cards.length a permutation of cards.
C5_CountElements ==
    op = "selectRandomCards" =>
        /\ count <= Len(cards) =>
              Len(result) = count /\ FromDistinctPositions(result, cards)
        /\ count >= Len(cards) => IsPermutationOf(result, cards)

\* C5 (amended): the same for every integer count with 0 <= count <= cards.length.
C5_CountElementsFromZero ==
    op = "selectRandomCards" =>
        /\ 0 <= count /\ count <= Len(cards) =>
              Len(result) = count /\ FromDistinctPositions(result, cards)
        /\ count >= Len(cards) => IsPermutationOf(result, cards)

C5_Witness ==
    /\ op = "selectRandomCards"
    /\ Len(cards) = 3
    /\ count = 2
    /\ Len(result) = 2
    /\ result # SubSeq(cards, 1, 2)

C5_WitnessOverRequest ==
    /\ op = "selectRandomCards"
    /\ Len(cards) = 2
    /\ count = 3
    /\ Len(result) = 2

----------------------------------------------------------------------------
(* C6 *)

RemoveAt(seq, k) == SubSeq(seq, 1, k - 1) \o SubSeq(seq, k + 1, Len(seq))

\* all arrangements of the elements of seq
RECURSIVE PermutationsOf(_)
PermutationsOf(seq) ==
    IF seq = <<>> THEN {<<>>}
    ELSE UNION {{<<seq[k]>> \o p : p \in PermutationsOf(RemoveAt(seq, k))} :
                    k \in 1..Len(seq)}

\* C6: whatever the draws, shuffleCards returns a sequence of the same length
\* and the same multiset of elements as its input, and every permutation of
\* the input is the result of some choice of draws.
C6_ShuffleIsPermutation ==
    op = "shuffleCards" =>
        /\ IsPermutationOf(result, cards)
        /\ PermutationsOf(cards) \subseteq
              {shuffleCards(cards, draws) : draws \in Draws(Len(cards))}

C6_Witness ==
    /\ op = "shuffleCards"
    /\ Len(cards) = 3
    /\ NoRepeats(cards)
    /\ \A k \in 1..3 : result[k] # cards[k]

----------------------------------------------------------------------------
(* C7 *)

\* C7: every element of a successful mixCards result has position equal to
\* its (0-based) index in the result.
C7_PositionIsIndex ==
    MixSucceeded =>
        \A k \in 1..Len(result.mixedCards) : result.mixedCards[k].position = k - 1

C7_Witness ==
    /\ MixSucceeded
    /\ Len(result.mixedCards) = 4
    /\ result.mixedCards[4].position = 3

----------------------------------------------------------------------------
(* C8 *)

\* C8: in a mixCards result deckName and deckColor are those of
\* allDecks[card.deckId] whenever that deck is present, whatever they are, and
\* the fallbacks only when it is absent.
C8_Attribution ==
    MixSucceeded =>
        \A k \in 1..Len(result.mixedCards) :
            LET m == result.mixedCards[k] IN
            IF m.deckId \in DOMAIN allDecks
            THEN /\ m.deckName = allDecks[m.deckId].name
                 /\ m.deckColor = allDecks[m.deckId].color
            ELSE /\ m.deckName = "Unknown Deck"
                 /\ m.deckColor = "#6B7280"

----------------------------------------------------------------------------
(* C9 *)

\* C9: when validation fails mixCards returns a failure with the validator's
\* reason and no mixed cards, and does not combine, sample or decorate.
C9_FailurePropagated ==
    (op = "mixCards" /\ ~Validation.valid) =>
        /\ result = [success |-> FALSE, error |-> Validation.error]
        /\ Elements(calls) \cap
              {"combineCardsFromDecks", "selectRandomCards", "shuffleCards",
               "createMixedCards"} = {}

C9_Witness ==
    /\ MixFailed
    /\ result.error = ErrEmptyDecks
    /\ Len(selectedDeckIds) = 2

----------------------------------------------------------------------------
(* C10 *)

\* C10: when the requested count exceeds the cards available, the failure
\* mixCards returns carries the maximum available count.
C10_FailureCarriesMaxAvailable ==
    (op = "mixCards" /\ Len(selectedDeckIds) > 0 /\ Len(Pool) > 0
        /\ requestedCount > Len(Pool)) =>
        /\ ~result.success
        /\ "maxAvailable" \in DOMAIN result
        /\ result.maxAvailable = Len(Pool)

----------------------------------------------------------------------------
(* C11 *)

\* C11: a call of handleMixCards in which mixCards fails does not call
\* saveMixingSession and leaves the persisted document, the current view and
\* the mixing session as they were.
C11_FailedMixLeavesNoRecord ==
    [][(op' = "handleMixCards" /\ ~result'.success) =>
          /\ "saveMixingSession" \notin Elements(calls')
          /\ storage' = storage
          /\ currentView' = currentView
          /\ mixingSession' = mixingSession]_vars

C11_Witness ==
    /\ op = "handleMixCards"
    /\ ~result.success
    /\ result.error = ErrNoDecks
    /\ selectedDeckIds = <<>>
    /\ Len(History) = 1
    /\ History = before
    /\ currentView = "card-mixer"
    /\ Len(errors) = 1

----------------------------------------------------------------------------
(* C12 *)

\* C12: when mixCards succeeds and saveMixingSession throws (storage
\* unavailable or quota exceeded), handleMixCards still installs the mixed
\* cards as the mixing session, shows the 'mixed-display' view and adds no
\* error.
C12_RecordingIsBestEffort ==
    [][(op' = "handleMixCards" /\ result'.success
            /\ "fault" \in DOMAIN called'
            /\ called'.fault \in {"unavailable", "quota"}) =>
          /\ mixingSession' = [mixedCards |-> result'.mixedCards,
                               selectedDeckIds |-> selectedDeckIds',
                               cardCount |-> requestedCount']
          /\ currentView' = "mixed-display"
          /\ errors' = errors]_vars

C12_Witness ==
    /\ op = "handleMixCards"
    /\ result.success
    /\ "fault" \in DOMAIN called
    /\ called.fault = "quota"
    /\ "console.warn" \in Elements(calls)
    /\ currentView = "mixed-display"
    /\ mixingSession # Null
    /\ Len(mixingSession.mixedCards) = 2
    /\ errors = <<>>
    /\ History = <<>>

----------------------------------------------------------------------------
(* C13 *)

\* C13: getRecentMixingSessions, in every state of the store (nothing
\* persisted yet and an unreadable document included), returns the first 5
\* entries of the current history list and writes nothing to localStorage.
C13_RecentIsReadOnly ==
    [][op' = "getRecentMixingSessions" =>
          /\ storage' = storage
          /\ (called'.fault = "none" =>
                 result'.returned = SubSeq(History, 1, Min(5, Len(History))))]_vars

----------------------------------------------------------------------------
(* C14 *)

\* C14: in a history whose identifiers are unique, deleteMixingSession(id)
\* removes the one entry with that identifier and leaves the others present
\* and in the same order; with an identifier no entry has, the list is
\* unchanged.
C14_DeleteRemovesOne ==
    (op = "deleteMixingSession" /\ Returned /\ NoRepeats([k \in 1..Len(before) |-> before[k].id])) =>
        IF called.argument \in SessionIds(before)
        THEN \E k \in 1..Len(before) :
                /\ before[k].id = called.argument
                /\ History = RemoveAt(before, k)
        ELSE History = before

C14_Witness ==
    /\ op = "deleteMixingSession"
    /\ Returned
    /\ Len(before) = 3
    /\ called.argument = before[2].id
    /\ History = <<before[1], before[3]>>

----------------------------------------------------------------------------
(* C15 *)

MutatingStoreOps == {"saveMixingSession", "deleteMixingSession", "cleanupOldMixingSessions"}

ReadingStoreOps == {"getMixingSessions", "getRecentMixingSessions"}

\* the store failed during the last call: localStorage was unavailable, or
\* it was full and the call had to write
StoreFailed ==
    /\ op \in MutatingStoreOps \cup ReadingStoreOps
    /\ \/ called.fault = "unavailable"
       \/ called.fault = "quota" /\ op \in MutatingStoreOps

\* C15: a session-history operation during which the store fails throws the
\* storage layer's error (it is not turned into a normal return value) and
\* leaves the persisted history as it was.
C15_StoreFailurePropagates ==
    StoreFailed =>
        /\ Threw
        /\ result.thrown = (IF called.fault = "unavailable" THEN ErrUnavailable ELSE ErrQuota)
        /\ History = before

----------------------------------------------------------------------------
(* C16 *)

LayoutOf(n, rows, cols) ==
    (op = "calculateGridLayout" /\ cardCount = n) =>
        result = [rows |-> rows, cols |-> cols]

\* C16 (as claimed): calculateGridLayout, read as {rows, cols}, gives {0,0}
\* for 0, {1,3} for 3, {2,2} for 4, {2,3} for 6, {3,3} for 7, {3,3} for 9 and
\* {4,3} for 10.
C16_Breakpoints ==
    /\ LayoutOf(0, 0, 0)
    /\ LayoutOf(3, 1, 3)
    /\ LayoutOf(4, 2, 2)
    /\ LayoutOf(6, 2, 3)
    /\ LayoutOf(7, 3, 3)
    /\ LayoutOf(9, 3, 3)
    /\ LayoutOf(10, 4, 3)

\* C16 (amended): calculateGridLayout gives rows 0, cols 0 for 0; rows 1,
\* cols 3 for 3; rows 2, cols 2 for 4; rows 2, cols 3 for 6; rows 3, cols 3
\* for 7 and for 9; and rows 3, cols 4 for 10 (4 columns wide, 3 rows high);
\* so each of the boundaries 3->4, 6->7 and 9->10 changes the shape.
C16_BreakpointsRowsCols ==
    /\ LayoutOf(0, 0, 0)
    /\ LayoutOf(3, 1, 3)
    /\ LayoutOf(4, 2, 2)
    /\ LayoutOf(6, 2, 3)
    /\ LayoutOf(7, 3, 3)
    /\ LayoutOf(9, 3, 3)
    /\ LayoutOf(10, 3, 4)

C16_Witness ==
    /\ op = "calculateGridLayout"
    /\ cardCount = 10
    /\ result.rows = 3
    /\ result.cols = 4

----------------------------------------------------------------------------
(* C17 *)

\* c is the least integer whose square reaches n
IsCeilSqrt(c, n) == c >= 0 /\ c * c >= n /\ (c = 0 \/ (c - 1) * (c - 1) < n)

\* q is the least integer with q * b >= a
IsCeilQuotient(q, a, b) == q * b >= a /\ (q - 1) * b < a

\* C17: for every cardCount >= 0 calculateGridLayout returns a layout, and
\* it is the one of the reference policy: 0 -> 0 x 0; 1..3 -> 1 row of
\* cardCount; 4..6 -> 2 rows of ceil(cardCount/2); 7..9 -> 3 rows of
\* ceil(cardCount/3); 10 and more -> cols = ceil(sqrt(cardCount)),
\* rows = ceil(cardCount/cols).
C17_ReferencePolicy ==
    (op = "calculateGridLayout" /\ cardCount >= 0) =>
        /\ DOMAIN result = {"rows", "cols"}
        /\ result.rows \in Nat /\ result.cols \in Nat
        /\ cardCount = 0 => result.rows = 0 /\ result.cols = 0
        /\ cardCount \in 1..3 => result.rows = 1 /\ result.cols = cardCount
        /\ cardCount \in 4..6 =>
              result.rows = 2 /\ IsCeilQuotient(result.cols, cardCount, 2)
        /\ cardCount \in 7..9 =>
              result.rows = 3 /\ IsCeilQuotient(result.cols, cardCount, 3)
        /\ cardCount >= 10 =>
              /\ IsCeilSqrt(result.cols, cardCount)
              /\ IsCeilQuotient(result.rows, cardCount, result.cols)

C17_Witness ==
    /\ op = "calculateGridLayout"
    /\ cardCount = 17
    /\ result.cols = 5
    /\ result.rows = 4

----------------------------------------------------------------------------
(* C18 *)

\* the card list stored for the i-th selected identifier, empty when there is none
StoredList(i) ==
    IF selectedDeckIds[i] \in DOMAIN allCards THEN allCards[selectedDeckIds[i]] ELSE <<>>

\* the number of cards stored for the first i selected identifiers
RECURSIVE StoredBefore(_)
StoredBefore(i) == IF i = 0 THEN 0 ELSE StoredBefore(i - 1) + Len(StoredList(i))

\* C18: combineCardsFromDecks returns the selected decks' card lists one
\* after the other, in the order of selectedDeckIds and each in its stored
\* order; an identifier with no entry in allCards adds nothing, and an
\* identifier listed twice adds its cards twice.
C18_CombineConcatenates ==
    op = "combineCardsFromDecks" =>
        /\ Len(result) = StoredBefore(Len(selectedDeckIds))
        /\ \A i \in 1..Len(selectedDeckIds) :
              \A k \in 1..Len(StoredList(i)) :
                 result[StoredBefore(i - 1) + k] = StoredList(i)[k]

C18_Witness ==
    /\ op = "combineCardsFromDecks"
    /\ selectedDeckIds = <<"B", "B">>
    /\ "A" \in DOMAIN allCards
    /\ "B" \in DOMAIN allCards
    /\ result = allCards["B"] \o allCards["B"]
    /\ Len(result) = 4

C18_WitnessUnknownDeck ==
    /\ op = "combineCardsFromDecks"
    /\ selectedDeckIds = <<"A", "B">>
    /\ "A" \notin DOMAIN allCards
    /\ "B" \in DOMAIN allCards
    /\ result = allCards["B"]
    /\ Len(result) = 2

----------------------------------------------------------------------------
(* C19 *)

\* C19: in every persisted state reached through saveDeck, saveCards,
\* addCards, deleteDeck and handleCreateDeck (a creation whose saveCards fails
\* after its saveDeck succeeded included), the cardCount of each stored deck
\* is the length of the card list stored under the deck's identifier.
C19_CardCountMatchesCards ==
    \A d \in DOMAIN PersistedDecks(storage) :
        PersistedDecks(storage)[d].cardCount =
            Len(CardsOfDeck(PersistedCards(storage), d))

----------------------------------------------------------------------------
(* C20 *)

\* C20: in the CardMixer, after any sequence of deck toggles, count edits,
\* quick selections and recent-session loads, each followed by its effects,
\* requestedCardCount is at most the number of cards in the selected decks.
C20_RequestedWithinAvailable ==
    requestedCardCount <= getTotalAvailableCards(selectedDeckIds, allCards)

----------------------------------------------------------------------------
(* C21: a recorded session is reused only through the decks that exist.    *)
(* Every call of handleLoadRecentSession leaves in selectedDeckIds only    *)
(* identifiers of existing decks: the session's identifiers that exist, in *)
(* the session's order, when there is one; and when there is none, the     *)
(* selection and the requested count stay as they were and the validation  *)
(* error is set, hence rendered.                                            *)

ExistingDeckIds(session) ==
    {deckId \in Elements(session.selectedDeckIds) : deckId \in DOMAIN allDecks}

C21_WitnessFiltered ==
    /\ op = "handleLoadRecentSession"
    /\ called.argument.selectedDeckIds = <<"A", "B">>
    /\ DOMAIN allDecks = {"B"}
    /\ selectedDeckIds = <<"B">>
    /\ validationError = ""

----------------------------------------------------------------------------
(* C22: an unparseable document is reset only with the user's consent, so  *)
(* no read on its own replaces it: a call of getAllDecks, getCards,         *)
(* getMixingSessions or checkStorageHealth that finds the item corrupt       *)
(* leaves the item as it is.                                                 *)

DocumentReaders == {"getAllDecks", "getCards", "getMixingSessions", "checkStorageHealth"}

C22_ReadKeepsCorruptDocument ==
    [][(op' \in DocumentReaders /\ storage = CorruptItem) => storage' = storage]_vars

----------------------------------------------------------------------------
(* C23: the total that validation compares with is the length of the pool  *)
(* that mixCards samples from, also when an identifier is unknown or given  *)
(* twice.  So whenever mixCards has entered selectRandomCards, the count it *)
(* passed is at least 1 and at most the pool's length, and the cards that   *)
(* come back are as many as were asked for.                                 *)

SampledByMix == op = "mixCards" /\ Includes(calls, "selectRandomCards")

C23_TotalIsPoolLength ==
    /\ getTotalAvailableCards(selectedDeckIds, allCards) = Len(Pool)
    /\ SampledByMix =>
          /\ 1 <= requestedCount
          /\ requestedCount <= Len(Pool)
          /\ result.success
          /\ Len(result.mixedCards) >= requestedCount

\* C23 witness: deck A with two cards selected twice and all four cards asked
\* for, so the sampler is entered with count = pool length
C23_Witness ==
    /\ SampledByMix
    /\ selectedDeckIds = <<"A", "A">>
    /\ Len(Pool) = 4
    /\ requestedCount = 4
    /\ Len(result.mixedCards) = 4

\* C23 witness: deck B has no card list; the total and the pool both count A alone
C23_WitnessUnknownDeck ==
    /\ SampledByMix
    /\ selectedDeckIds = <<"A", "B">>
    /\ "B" \notin DOMAIN allCards
    /\ requestedCount = Len(Pool)
    /\ Len(result.mixedCards) = Len(allCards["A"])

----------------------------------------------------------------------------
(* C24: a store call reads the whole document, changes it and writes the   *)
(* whole of it back, unguarded.  While no tab has entered a call during     *)
(* another tab's call, every call that has returned is still to be found in *)
(* the persisted document; once two calls have overlapped, one that         *)
(* returned can be missing (the witness).                                   *)

\* what a returned call has left is in the document a reader finds
Persisted(operation) ==
    IF operation.name = "saveMixingSession"
    THEN operation.session.id \in SessionIds(PersistedSessions(storage))
    ELSE /\ operation.deck.id \in DOMAIN PersistedDecks(storage)
         /\ PersistedDecks(storage)[operation.deck.id] = operation.deck

NoLostUpdate == \A operation \in completed : Persisted(operation)

C24_UninterruptedCallsLoseNothing == ~overlapped => NoLostUpdate

\* C24 witness: both tabs have returned from saveMixingSession, all calls are
\* over, and the session of one of them is not in the persisted history
C24_Witness ==
    /\ overlapped
    /\ \A t \in TabIds : tabs[t].pc = "idle"
    /\ \E lost \in completed, kept \in completed :
          /\ lost.name = "saveMixingSession"
          /\ kept.name = "saveMixingSession"
          /\ ~Persisted(lost)
          /\ Persisted(kept)

\* C24 witness: a saveDeck of the other tab has wiped a recorded session
C24_WitnessDeckOverSession ==
    /\ overlapped
    /\ \E lost \in completed, kept \in completed :
          /\ lost.name = "saveMixingSession"
          /\ kept.name = "saveDeck"
          /\ ~Persisted(lost)
          /\ Persisted(kept)

\* C24 witness: calls made one after the other, from both tabs, all kept
C24_WitnessInTurn ==
    /\ ~overlapped
    /\ Cardinality(completed) >= 3
    /\ \E operation \in completed : operation.name = "saveDeck"
    /\ NoLostUpdate

----------------------------------------------------------------------------
(* C25: the mixer works on what is persisted.  While the card-mixer view is *)
(* shown, the decks and the cards it was given are the persisted ones, and  *)
(* every card of a mix that succeeded belongs to a persisted deck.          *)

MixedDeckIds == {result.mixedCards[k].deckId : k \in 1..Len(result.mixedCards)}

C25_MixerShowsPersisted ==
    /\ currentView = "card-mixer" =>
          /\ allDecks = PersistedDecks(storage)
          /\ allCards = PersistedCards(storage)
    /\ (op = "handleMixCards" /\ result.success) =>
          MixedDeckIds \subseteq DOMAIN PersistedDecks(storage)

----------------------------------------------------------------------------
(* C26: a view that needs a session has it.  In every state the handlers    *)
(* lead to, the mixed display comes with a mixing session and the study     *)
(* view with a study session, so neither render-time fallback applies.      *)

C26_ViewHasItsSession ==
    /\ currentView = "mixed-display" => mixingSession # Null
    /\ currentView = "study" => currentSession # Null

\* C26 witness: a mix was recorded and left (back to the mixer, back to the
\* deck list), then a deck was opened for study
C26_Witness ==
    /\ currentView = "study"
    /\ currentSession # Null
    /\ mixingSession = Null
    /\ recordsDone = 1

\* C26 witness: the mixed display after an error was raised in the deck list
C26_WitnessMixedDisplay ==
    /\ currentView = "mixed-display"
    /\ mixingSession # Null
    /\ currentSession = Null
    /\ Len(errors) = 1

----------------------------------------------------------------------------
(* C27: the mixer never holds a deck twice.  Whatever decks are toggled and *)
(* whichever recorded sessions are loaded, selectedDeckIds has no repeated  *)
(* identifier; so every session the application has recorded has none, and  *)
(* the pool of a mix that the application ran has no card twice.            *)

C27_SelectionHasNoRepeats ==
    /\ NoRepeats(selectedDeckIds)
    /\ \A k \in 1..Len(History) : NoRepeats(History[k].selectedDeckIds)
    /\ \A k \in 1..Len(recentSessions) : NoRepeats(recentSessions[k].selectedDeckIds)
    /\ op = "handleMixCards" => NoRepeats(Pool)

\* C27 witness: a session on A and B was recorded, the mixer came back with
\* that session in its list, and A and B were mixed and recorded once more
C27_Witness ==
    /\ op = "handleMixCards"
    /\ result.success
    /\ Len(History) = 2
    /\ History[2].selectedDeckIds = <<"A", "B">>
    /\ History[1].selectedDeckIds = <<"A", "B">>
    /\ Len(recentSessions) = 1
    /\ Len(Pool) = 2

\* C27 witness: a recorded session has just been loaded into the mixer
C27_WitnessLoaded ==
    /\ op = "handleLoadRecentSession"
    /\ selectedDeckIds = <<"B", "A">>
    /\ called.argument.id \in SessionIds(History)

----------------------------------------------------------------------------
(* C28: reshuffling fills the history.  As claimed: every reshuffle of the *)
(* row has recorded an entry, and once 10 reshuffles were made in a row     *)
(* every entry of the persisted history has the selection and the count of  *)
(* the mix on display.                                                      *)

OnDisplay == currentView = "mixed-display" /\ mixingSession # Null

HasConfigurationOnDisplay(entry) ==
    /\ entry.selectedDeckIds = mixingSession.selectedDeckIds
    /\ entry.cardCount = mixingSession.cardCount

C28_ReshufflesFillHistory ==
    OnDisplay =>
       /\ reshuffles.recorded = reshuffles.inRow
       /\ reshuffles.inRow >= MaxMixingSessions =>
             \A k \in 1..Len(History) : HasConfigurationOnDisplay(History[k])

(* C28 as amended: a reshuffle mixes with the selection and the count on    *)
(* display and records an entry only if saveMixingSession returns.  The     *)
(* entries recorded by the reshuffles of the row are the newest ones of the *)
(* history and have the configuration on display; once 10 were recorded the *)
(* history holds 10 entries, all of that configuration.                     *)
C28_RecordedReshufflesFillHistory ==
    OnDisplay =>
       /\ reshuffles.recorded <= reshuffles.inRow
       /\ (op = "handleMixCards" /\ result.success) =>
             /\ selectedDeckIds = mixingSession.selectedDeckIds
             /\ requestedCount = mixingSession.cardCount
       /\ Len(History) >= Min(reshuffles.recorded, MaxMixingSessions)
       /\ \A k \in 1..Min(reshuffles.recorded, Len(History)) :
             HasConfigurationOnDisplay(History[k])
       /\ reshuffles.recorded >= MaxMixingSessions =>
             /\ Len(History) = MaxMixingSessions
             /\ \A k \in 1..Len(History) : HasConfigurationOnDisplay(History[k])

\* C28 witness: a mix of deck B alone was recorded, then both decks were
\* mixed and reshuffled 10 times, each time recorded; the entry of deck B is
\* no longer in the history
C28_Witness ==
    /\ OnDisplay
    /\ reshuffles = [inRow |-> 10, recorded |-> 10]
    /\ mixingSession.selectedDeckIds = <<"A", "B">>
    /\ \E k \in 1..Len(recordedInRow) : recordedInRow[k].selectedDeckIds = <<"B">>
    /\ \A k \in 1..Len(History) : History[k].selectedDeckIds = <<"A", "B">>

\* C28 witness: 10 reshuffles in a row of which only 9 were recorded
C28_WitnessOneUnrecorded ==
    /\ OnDisplay
    /\ reshuffles = [inRow |-> 10, recorded |-> 9]

----------------------------------------------------------------------------
(* C29: the session operations and the deck and card operations keep to     *)
(* their own part of the document.  A step of saveMixingSession,            *)
(* deleteMixingSession or cleanupOldMixingSessions leaves the persisted     *)
(* decks and cards as they were, and a step of saveDeck, deleteDeck,        *)
(* saveCards or addCards leaves the persisted sessions as they were, the    *)
(* sessions that name a deleted deck included.                              *)

SessionOperations ==
    {"saveMixingSession", "deleteMixingSession", "cleanupOldMixingSessions"}

DeckOperations == {"saveDeck", "deleteDeck", "saveCards", "addCards"}

C29_OperationsKeepToTheirPart ==
    [][/\ op' \in SessionOperations =>
             /\ PersistedDecks(storage') = PersistedDecks(storage)
             /\ PersistedCards(storage') = PersistedCards(storage)
       /\ op' \in DeckOperations =>
             PersistedSessions(storage') = PersistedSessions(storage)]_vars

\* C29 witness: deleteDeck("A") has returned, no deck is stored, and a session
\* that names deck A is still in the history
C29_Witness ==
    /\ op = "deleteDeck"
    /\ Returned
    /\ called.argument = "A"
    /\ DOMAIN PersistedDecks(storage) = {}
    /\ \E k \in 1..Len(PersistedSessions(storage)) :
          \E j \in 1..Len(PersistedSessions(storage)[k].selectedDeckIds) :
             PersistedSessions(storage)[k].selectedDeckIds[j] = "A"

\* C29 witness: a session is saved 31 days after deck A and its card were
\* created; both are stored with the day of their creation
C29_WitnessSessionSaved ==
    /\ op = "saveMixingSession"
    /\ Returned
    /\ now = ThirtyDays + 1
    /\ "A" \in DOMAIN PersistedDecks(storage)
    /\ PersistedDecks(storage)["A"].createdAt = 0
    /\ Len(CardsOfDeck(PersistedCards(storage), "A")) = 1
    /\ PersistedCards(storage)["A"][1].createdAt = 0

\* C29 witness: cleanupOldMixingSessions has emptied the history and the
\* deck and its card are still stored
C29_WitnessCleanup ==
    /\ op = "cleanupOldMixingSessions"
    /\ Returned
    /\ before # <<>>
    /\ PersistedSessions(storage) = <<>>
    /\ DOMAIN PersistedDecks(storage) = {"A"}
    /\ Len(CardsOfDeck(PersistedCards(storage), "A")) = 1

----------------------------------------------------------------------------
(* C30: for every cardCount >= 1 the grid of calculateGridLayout has room   *)
(* for all the cards (rows * cols >= cardCount), has a card in its last row *)
(* ((rows - 1) * cols < cardCount) and is at least as wide as it is high    *)
(* (rows <= cols).                                                          *)
C30_GridFitsTheCards ==
    (op = "calculateGridLayout" /\ cardCount >= 1) =>
        /\ result.rows * result.cols >= cardCount
        /\ (result.rows - 1) * result.cols < cardCount
        /\ result.rows <= result.cols

\* C30 witness: 101 cards get 10 rows of 11, the last row holding 2
C30_Witness ==
    /\ op = "calculateGridLayout"
    /\ cardCount = 101
    /\ result = [rows |-> 10, cols |-> 11]

\* C30 witness: 7 cards get 3 rows of 3, the last row holding 1
C30_WitnessOneInLastRow ==
    /\ op = "calculateGridLayout"
    /\ cardCount = 7
    /\ result = [rows |-> 3, cols |-> 3]
    /\ (result.rows - 1) * result.cols = cardCount - 1

====
